---- MODULE Spec2Model ----
(***************************************************************************)
(* Registration-approval workflow and login gate of the attendance         *)
(* backend (backend/routes/auth.js).  Every route handler is an async      *)
(* function: each `await` of a store call is a point where other handlers  *)
(* may run, so a handler is a sequence of steps, one per store call,       *)
(* executed by a request slot.  The document store (Mongoose models User,  *)
(* RegistrationRequest, Notification) is the shared state.                 *)
(***************************************************************************)
EXTENDS Integers, Sequences, FiniteSets, TLC

(* ---------------------------- bounds ----------------------------------- *)
NumProcs == 2        \* request handlers that may be in flight together
MaxReqs  == 3        \* RegistrationRequest documents the store may hold
MaxUsers == 3        \* User documents the store may hold
MaxClock == 2        \* instants of the server clock
MaxResets == 2       \* password-reset tokens the server may generate
MaxPending == 2      \* requests of the tab awaiting their response

(* ------------------------- program constants --------------------------- *)
ADMIN_VERIFICATION_CODE == "COMPANY"
MinPasswordLength == 6
PadWidth == 4

(* ---------------------------- input sets ------------------------------- *)
Procs == 1..NumProcs
\* The first administrator of a running installation.
SeedEmail == "root@x"
SeedPassword == "rootpw"
\* Addresses submitted to /register; "" is the absent field.
RegEmails == {"a@x", "b@x"}
Passwords == {"secret1"}

\* password.length
PasswordLength(pw) ==
  CASE pw = "" -> 0
    [] pw = "abc" -> 3
    [] OTHER -> 7

\* String.prototype.toLowerCase on the addresses of the model.
Lower(e) == IF e = "A@X" THEN "a@x" ELSE e

\* { $regex: new RegExp(`^${email}$`, "i") } applied to a stored address.
RegexMatchI(pattern, stored) == Lower(pattern) = Lower(stored)

\* bcrypt.hash / bcrypt.compare
Hash(pw) == <<"bcrypt", pw>>
Compare(pw, hash) == hash = Hash(pw)

(* --------------------------- employee id ------------------------------- *)
RECURSIVE Digits(_)
Digits(n) == IF n < 10 THEN <<n>> ELSE Digits(n \div 10) \o <<n % 10>>

RECURSIVE PadStart(_, _, _)
PadStart(s, width, c) ==
  IF Len(s) >= width THEN s ELSE PadStart(<<c>> \o s, width, c)

\* `EMP${String(count + 1).padStart(4, "0")}`
FormatEmployeeId(count) ==
  [prefix |-> "EMP", digits |-> PadStart(Digits(count + 1), PadWidth, 0)]

NoEmployeeId == [prefix |-> "", digits |-> <<>>]

VARIABLES
  users,          \* User collection, _id = index
  requests,       \* RegistrationRequest collection, _id = index
  notifications,  \* Notification collection: documents per relatedId
  tokens,         \* session tokens signed so far (held by clients)
  now,            \* the server clock, in hours
  issued,         \* password-reset tokens generated so far
  procs,          \* request slots: the handler each is running and where
  isConnected,    \* serverless server: the module-level flag
  readyState,     \* serverless server: mongoose.connection.readyState
  startup,        \* serverless server: the connection attempt of module load
  authToken,      \* frontend: the module-level token
  sessionStorage, \* frontend: the item jwtToken of the tab's sessionStorage
  returned,       \* frontend: what the last getAuthToken() call returned
  authorization,  \* frontend: the Authorization header of the last request
  pending         \* frontend: requests sent and not yet answered

server  == <<isConnected, readyState, startup>>
browser == <<authToken, sessionStorage, returned, authorization, pending>>
vars == <<users, requests, notifications, tokens, now, issued, procs,
          server, browser>>

(* --------------------------- JavaScript values ------------------------- *)
\* null and strings, kept apart: String(null) is the string "null".
Null == [type |-> "null", value |-> ""]
Str(s) == [type |-> "string", value |-> s]
\* String(v), the conversion sessionStorage.setItem applies to its value.
StringOf(v) == IF v.type = "null" THEN Str("null") ELSE v
\* if (v): null and the empty string are falsy.
Truthy(v) == v.type = "string" /\ v.value # ""

(* ----------------------------- tokens ---------------------------------- *)
\* expiresIn: "7d", in hours of the clock
TokenTTL == 7 * 24
NoToken  == [id |-> 0, exp |-> 0]      \* no Authorization header
BadToken == [id |-> -1, exp |-> 0]     \* a string the secret did not sign

\* A payload that carries the identity under a key the middleware does not
\* read: decoded.id is undefined.
JwtSignUserIdKey(uid) == [id |-> 0, exp |-> now + TokenTTL]

\* jwt.sign({ id: user._id }, JWT_SECRET, { expiresIn: "7d" })
JwtSign(uid) == [id |-> uid, exp |-> now + TokenTTL]
\* jwt.verify(token, JWT_SECRET) does not throw
JwtVerify(t) == t.id > 0 /\ t.exp > now
\* decoded[key] of a verified token: the payload has the one claim `id`.
PayloadClaim(t, key) == IF key = "id" THEN t.id ELSE 0

(* ---------------------------- responses -------------------------------- *)
\* A response: status, message, and the parts of the JSON body the
\* endpoints fill in (token and user of /login, requestId of /register,
\* requests and total of the listing, the counts of the statistics).
NoProfile == [id |-> 0, employeeId |-> NoEmployeeId, email |-> "", role |-> ""]
NoStats == [pending |-> 0, approved |-> 0, rejected |-> 0, total |-> 0]
NoPaging == [total |-> 0, totalPages |-> 0, currentPage |-> 0]
NoResp == [status |-> 0, msg |-> "", token |-> NoToken, rid |-> 0,
           requestStatus |-> "", user |-> NoProfile, list |-> <<>>,
           paging |-> NoPaging, stats |-> NoStats]
Resp(status, msg) == [NoResp EXCEPT !.status = status, !.msg = msg]

\* req.query of the listing: status, page, limit.
NoQuery == [status |-> "", page |-> 0, limit |-> 0]

Blank ==
  [op |-> "none", pc |-> "idle", email |-> "", password |-> "", role |-> "",
   code |-> "", fields |-> TRUE, token |-> NoToken, rid |-> 0, reason |-> "",
   query |-> NoQuery, uid |-> 0, reset |-> 0, expiry |-> 0,
   reviewer |-> 0, empId |-> NoEmployeeId, resp |-> NoResp]

\* The slot that takes the next request: slots are interchangeable, so the
\* lowest idle one does.
Free(p) == procs[p].pc = "idle" /\ \A q \in Procs : q < p => procs[q].pc # "idle"
Done(p, r) == [procs[p] EXCEPT !.pc = "done", !.resp = r,
                               !.reviewer = 0, !.empId = NoEmployeeId]

(* ------------------------------ store ---------------------------------- *)
UserIds == DOMAIN users
ReqIds  == DOMAIN requests

\* name, department, position, phone and address of a body, one value per
\* registrant.
ProfileOf(email) == <<"profile", email>>

\* The User that takes the role employee whatever the request says.
NewUserDefaultRole(empId, r) ==
  [employeeId |-> empId, email |-> r.email, password |-> r.password,
   profile |-> r.profile, role |-> "employee", isActive |-> TRUE,
   resetPasswordToken |-> 0, resetPasswordExpiry |-> 0]

NewUser(empId, r) ==
  [employeeId |-> empId, email |-> r.email, password |-> r.password,
   profile |-> r.profile, role |-> r.role, isActive |-> TRUE,
   resetPasswordToken |-> 0, resetPasswordExpiry |-> 0]

NewRequest(email, hashed, role) ==
  [email |-> email, password |-> hashed, profile |-> ProfileOf(email),
   role |-> role, status |-> "pending",
   reviewedBy |-> 0, reviewedAt |-> 0, rejectionReason |-> ""]

\* User.findOne({ email })
UsersByEmail(e) == {u \in UserIds : users[u].email = e}
\* A lookup that leaves the active flag out of the filter.
UsersMatchingInactiveToo(e) ==
  {u \in UserIds : RegexMatchI(e, users[u].email)}

\* User.findOne({ email: /^e$/i, isActive: true })
ActiveUsersMatching(e) ==
  {u \in UserIds : RegexMatchI(e, users[u].email) /\ users[u].isActive}
\* RegistrationRequest.findOne({ email, status: { $in: [...] } })
RequestsByEmail(e, statuses) ==
  {r \in ReqIds : requests[r].email = e /\ requests[r].status \in statuses}
\* RegistrationRequest.findOne({ email: /^e$/i, status })
RequestsMatching(e, st) ==
  {r \in ReqIds : RegexMatchI(e, requests[r].email) /\ requests[r].status = st}

\* findOne returns the first document in natural order
First(S) == CHOOSE x \in S : \A y \in S : x <= y


(* Uniqueness constraints of the collections.  The schemas               *)
(* (backend/models/User.js, RegistrationRequest.js) are not part of the  *)
(* sources at hand; the constraints are the documented ones: a request's *)
(* email is unique across active (pending, approved) records and a       *)
(* user's email is unique among active users.                            *)
ActiveStatuses == {"pending", "approved"}

\* A unique index on email over every record, the rejected included.
RequestIndexEveryStatus(reqs) ==
  \A r1, r2 \in DOMAIN reqs : r1 # r2 => reqs[r1].email # reqs[r2].email

\* A RegistrationRequest collection without the uniqueness constraint.
RequestIndexAbsent(reqs) == TRUE

RequestIndexOk(reqs) ==
  \A r1, r2 \in DOMAIN reqs :
    (r1 # r2 /\ reqs[r1].email = reqs[r2].email
       /\ reqs[r1].status \in ActiveStatuses)
    => reqs[r2].status \notin ActiveStatuses

UserIndexOk(us) ==
  \A u1, u2 \in DOMAIN us :
    (u1 # u2 /\ us[u1].email = us[u2].email /\ us[u1].isActive)
    => ~us[u2].isActive

(* -------------------------- POST /register ----------------------------- *)
\* Handlers that may still insert a document (the bounds count them).
Registering == {q \in Procs : procs[q].pc = "reg_saveRequest"}
Approving == {q \in Procs : procs[q].pc \in {"apr_count", "apr_saveUser"}}

\* The checks of lines 63-88 without the password length of lines 75-77.
RegisterLengthNotChecked(p, fields, email, password, role, code) ==
  /\ Free(p)
  /\ LET me == [Blank EXCEPT !.op = "register", !.email = email,
                  !.password = password, !.role = role, !.code = code,
                  !.fields = fields]
         out(r) == [me EXCEPT !.pc = "done", !.resp = r]
     IN procs' = [procs EXCEPT ![p] =
          IF ~fields \/ email = "" \/ password = "" \/ code = ""
            THEN out(Resp(400, "All fields are required"))
          ELSE IF code # ADMIN_VERIFICATION_CODE
            THEN out(Resp(400, "Invalid admin verification code"))
          ELSE IF UsersByEmail(email) # {}
            THEN out(Resp(400, "User with this email already exists"))
          ELSE [me EXCEPT !.pc = "reg_findRequest"]]
  /\ UNCHANGED <<users, requests, notifications, tokens, now, issued, server, browser>>

\* The checks of lines 63-88 with User.findOne restricted to active users.
RegisterIgnoresInactive(p, fields, email, password, role, code) ==
  /\ Free(p)
  /\ LET me == [Blank EXCEPT !.op = "register", !.email = email,
                  !.password = password, !.role = role, !.code = code,
                  !.fields = fields]
         out(r) == [me EXCEPT !.pc = "done", !.resp = r]
     IN procs' = [procs EXCEPT ![p] =
          IF ~fields \/ email = "" \/ password = "" \/ code = ""
            THEN out(Resp(400, "All fields are required"))
          ELSE IF PasswordLength(password) < MinPasswordLength
            THEN out(Resp(400, "Password must be at least 6 characters long"))
          ELSE IF code # ADMIN_VERIFICATION_CODE
            THEN out(Resp(400, "Invalid admin verification code"))
          ELSE IF {u \in UsersByEmail(email) : users[u].isActive} # {}
            THEN out(Resp(400, "User with this email already exists"))
          ELSE [me EXCEPT !.pc = "reg_findRequest"]]
  /\ UNCHANGED <<users, requests, notifications, tokens, now, issued, server, browser>>

\* The checks of lines 63-88 with User.findOne ahead of the admin code.
RegisterLookupBeforeCode(p, fields, email, password, role, code) ==
  /\ Free(p)
  /\ LET me == [Blank EXCEPT !.op = "register", !.email = email,
                  !.password = password, !.role = role, !.code = code,
                  !.fields = fields]
         out(r) == [me EXCEPT !.pc = "done", !.resp = r]
     IN procs' = [procs EXCEPT ![p] =
          IF ~fields \/ email = "" \/ password = "" \/ code = ""
            THEN out(Resp(400, "All fields are required"))
          ELSE IF PasswordLength(password) < MinPasswordLength
            THEN out(Resp(400, "Password must be at least 6 characters long"))
          ELSE IF UsersByEmail(email) # {}
            THEN out(Resp(400, "User with this email already exists"))
          ELSE IF code # ADMIN_VERIFICATION_CODE
            THEN out(Resp(400, "Invalid admin verification code"))
          ELSE [me EXCEPT !.pc = "reg_findRequest"]]
  /\ UNCHANGED <<users, requests, notifications, tokens, now, issued, server, browser>>

\* Lines 63-88: validation, admin code, User.findOne({ email }).
\* `fields` stands for name, department, position, phone and address all
\* being present.
RegisterCheckUser(p, fields, email, password, role, code) ==
  /\ Free(p)
  /\ LET me == [Blank EXCEPT !.op = "register", !.email = email,
                  !.password = password, !.role = role, !.code = code,
                  !.fields = fields]
         out(r) == [me EXCEPT !.pc = "done", !.resp = r]
     IN procs' = [procs EXCEPT ![p] =
          IF ~fields \/ email = "" \/ password = "" \/ code = ""
            THEN out(Resp(400, "All fields are required"))
          ELSE IF PasswordLength(password) < MinPasswordLength
            THEN out(Resp(400, "Password must be at least 6 characters long"))
          ELSE IF code # ADMIN_VERIFICATION_CODE
            THEN out(Resp(400, "Invalid admin verification code"))
          ELSE IF UsersByEmail(email) # {}
            THEN out(Resp(400, "User with this email already exists"))
          ELSE [me EXCEPT !.pc = "reg_findRequest"]]
  /\ UNCHANGED <<users, requests, notifications, tokens, now, issued, server, browser>>

\* The handler goes to the save without the lookup of lines 91-106.
RegisterRequestNotLookedUp(p) ==
  /\ procs[p].pc = "reg_findRequest"
  /\ Len(requests) + Cardinality(Registering) < MaxReqs
  /\ procs' = [procs EXCEPT ![p] = [procs[p] EXCEPT !.pc = "reg_saveRequest"]]
  /\ UNCHANGED <<users, requests, notifications, tokens, now, issued, server, browser>>

\* Lines 90-110: RegistrationRequest.findOne pending/approved, then hashing.
RegisterCheckRequest(p) ==
  /\ procs[p].pc = "reg_findRequest"
  /\ RequestsByEmail(procs[p].email, ActiveStatuses) = {}
       => Len(requests) + Cardinality(Registering) < MaxReqs
  /\ LET found == RequestsByEmail(procs[p].email, ActiveStatuses)
     IN procs' = [procs EXCEPT ![p] =
          IF found = {} THEN [procs[p] EXCEPT !.pc = "reg_saveRequest"]
          ELSE IF requests[First(found)].status = "pending"
            THEN Done(p, Resp(400, "A registration request with this email is already pending admin approval"))
          ELSE Done(p, Resp(400, "A registration request with this email has already been approved"))]
  /\ UNCHANGED <<users, requests, notifications, tokens, now, issued, server, browser>>

\* A catch that answers every error of the save with 500, the duplicate key
\* of lines 149-151 too.
RegisterDuplicateUnmapped(p) ==
  /\ procs[p].pc = "reg_saveRequest"
  /\ LET doc == NewRequest(procs[p].email, Hash(procs[p].password),
                           IF procs[p].role = "" THEN "employee" ELSE procs[p].role)
         new == Append(requests, doc)
     IN IF RequestIndexOk(new)
          THEN /\ requests' = new
               /\ procs' = [procs EXCEPT ![p] =
                    [procs[p] EXCEPT !.pc = "reg_saveNotification", !.rid = Len(new)]]
          ELSE /\ requests' = requests
               /\ procs' = [procs EXCEPT ![p] = Done(p, Resp(500, "E11000 duplicate key"))]
  /\ UNCHANGED <<users, notifications, tokens, now, issued, server, browser>>

\* Lines 112-127 and the catch of 147-153: registrationRequest.save().
RegisterSaveRequest(p) ==
  /\ procs[p].pc = "reg_saveRequest"
  /\ LET doc == NewRequest(procs[p].email, Hash(procs[p].password),
                           IF procs[p].role = "" THEN "employee" ELSE procs[p].role)
         new == Append(requests, doc)
     IN IF RequestIndexOk(new)
          THEN /\ requests' = new
               /\ procs' = [procs EXCEPT ![p] =
                    [procs[p] EXCEPT !.pc = "reg_saveNotification", !.rid = Len(new)]]
          ELSE /\ requests' = requests   \* E11000 duplicate key
               /\ procs' = [procs EXCEPT ![p] =
                    Done(p, Resp(400, "Email already exists in registration requests"))]
  /\ UNCHANGED <<users, notifications, tokens, now, issued, server, browser>>

\* The 201 response without the notification of lines 130-138.
RegisterNotificationSkipped(p) ==
  /\ procs[p].pc = "reg_saveNotification"
  /\ procs' = [procs EXCEPT ![p] =
       Done(p, [NoResp EXCEPT !.status = 201,
                  !.msg = "Registration request submitted successfully",
                  !.rid = procs[p].rid, !.requestStatus = "pending"])]
  /\ UNCHANGED <<users, requests, notifications, tokens, now, issued, server, browser>>

\* Lines 129-146: notification.save() and the 201 response.
RegisterSaveNotification(p) ==
  /\ procs[p].pc = "reg_saveNotification"
  /\ notifications' = [notifications EXCEPT ![procs[p].rid] = @ + 1]
  /\ procs' = [procs EXCEPT ![p] =
       Done(p, [NoResp EXCEPT !.status = 201,
                  !.msg = "Registration request submitted successfully",
                  !.rid = procs[p].rid, !.requestStatus = "pending"])]
  /\ UNCHANGED <<users, requests, tokens, now, issued, server, browser>>

(* ---------------------------- POST /login ------------------------------ *)
\* The request bodies tried: every address with the registered password and
\* with another one, the administrator's credentials, and absent fields.
LoginBody(e, pw) == [email |-> e, password |-> pw]
LoginBodies ==
  {LoginBody(e, pw) : e \in {"a@x", "A@X", "b@x", "c@x"}, pw \in {"secret1", "secret2"}}
  \cup {LoginBody(SeedEmail, SeedPassword), LoginBody(SeedEmail, "secret1"),
        LoginBody("", "secret1"), LoginBody("a@x", "")}

\* The 401 answers of the login gate (lines 355-357, 366-368, 371, 387).
AwaitingApproval == Resp(401, "Your registration is still pending admin approval")
RequestRejected  == Resp(401, "Your registration request was rejected")
NoAccount        == Resp(401, "Invalid email or password, or account not found")
WrongPassword    == Resp(401, "Invalid email or password")

\* Lines 395-409: the user object of the login response (name, department,
\* position, phone and address are carried by `fields`).
LoginProfile(uid) ==
  [id |-> uid, employeeId |-> users[uid].employeeId,
   email |-> users[uid].email, role |-> users[uid].role]

\* Lines 327-341 and 374-409: validation, User.findOne (active, regex),
\* bcrypt.compare and jwt.sign.
LoginFindUser(p, email, password) ==
  /\ Free(p)
  /\ LET me == [Blank EXCEPT !.op = "login", !.email = email, !.password = password]
         out(r) == [me EXCEPT !.pc = "done", !.resp = r]
         found == ActiveUsersMatching(email)
         uid == First(found)
     IN IF email = "" \/ password = ""
          THEN /\ procs' = [procs EXCEPT ![p] = out(Resp(400, "Email and password are required"))]
               /\ tokens' = tokens
        ELSE IF found = {}
          THEN /\ procs' = [procs EXCEPT ![p] = [me EXCEPT !.pc = "login_findPending"]]
               /\ tokens' = tokens
        ELSE IF ~Compare(password, users[uid].password)
          THEN /\ procs' = [procs EXCEPT ![p] = out(WrongPassword)]
               /\ tokens' = tokens
        ELSE /\ procs' = [procs EXCEPT ![p] =
                  out([NoResp EXCEPT !.status = 200, !.msg = "Login successful",
                         !.token = JwtSign(uid), !.user = LoginProfile(uid)])]
             /\ tokens' = tokens \cup {JwtSign(uid)}
  /\ UNCHANGED <<users, requests, notifications, now, issued, server, browser>>

\* The gate goes to the rejected lookup without the pending one.
LoginPendingNotLookedUp(p) ==
  /\ procs[p].pc = "login_findPending"
  /\ procs' = [procs EXCEPT ![p] = [procs[p] EXCEPT !.pc = "login_findRejected"]]
  /\ UNCHANGED <<users, requests, notifications, tokens, now, issued, server, browser>>

\* The gate with the rejected lookup ahead of the pending one.
LoginRejectedFirst(p) ==
  /\ procs[p].pc = "login_findPending"
  /\ procs' = [procs EXCEPT ![p] =
       IF RequestsMatching(procs[p].email, "rejected") # {}
         THEN Done(p, RequestRejected)
       ELSE IF RequestsMatching(procs[p].email, "pending") # {}
         THEN Done(p, AwaitingApproval)
       ELSE [procs[p] EXCEPT !.pc = "login_findRejected"]]
  /\ UNCHANGED <<users, requests, notifications, tokens, now, issued, server, browser>>

\* Lines 348-358: RegistrationRequest.findOne({ email, status: "pending" }).
LoginFindPending(p) ==
  /\ procs[p].pc = "login_findPending"
  /\ procs' = [procs EXCEPT ![p] =
       IF RequestsMatching(procs[p].email, "pending") # {}
         THEN Done(p, AwaitingApproval)
         ELSE [procs[p] EXCEPT !.pc = "login_findRejected"]]
  /\ UNCHANGED <<users, requests, notifications, tokens, now, issued, server, browser>>

\* Lines 360-371: RegistrationRequest.findOne({ email, status: "rejected" }).
LoginFindRejected(p) ==
  /\ procs[p].pc = "login_findRejected"
  /\ procs' = [procs EXCEPT ![p] =
       IF RequestsMatching(procs[p].email, "rejected") # {}
         THEN Done(p, RequestRejected)
         ELSE Done(p, NoAccount)]
  /\ UNCHANGED <<users, requests, notifications, tokens, now, issued, server, browser>>


(* --------------------- auth and adminAuth middleware ------------------- *)
\* `auth` without `adminAuth` behind it.
AuthStatusAnyRole(t) ==
  IF t = NoToken THEN 403
  ELSE IF ~JwtVerify(t) THEN 403
  ELSE IF t.id \notin UserIds \/ ~users[t.id].isActive THEN 403
  ELSE 0

\* Lines 21-42.  The result is the status the middleware answers with,
\* 0 when it calls next().
AuthStatus(t) ==
  IF t = NoToken THEN 403
  ELSE IF ~JwtVerify(t) THEN 403
  ELSE IF t.id \notin UserIds \/ ~users[t.id].isActive THEN 403
  ELSE IF users[t.id].role # "admin" /\ users[t.id].role # "hr" THEN 403
  ELSE 0

\* `auth` that trusts the verified payload and looks no user up.
AuthUserStateless(t) ==
  IF t = NoToken \/ ~JwtVerify(t) THEN 0 ELSE PayloadClaim(t, "id")

\* Lines 21-30: req.user after `auth` called next(), 0 when it answered.
AuthUser(t) ==
  IF t = NoToken \/ ~JwtVerify(t) THEN 0
  ELSE IF PayloadClaim(t, "id") \notin UserIds \/ ~users[PayloadClaim(t, "id")].isActive THEN 0
  ELSE PayloadClaim(t, "id")

AuthMessage(t) ==
  IF t = NoToken THEN "No token provided"
  ELSE IF ~JwtVerify(t) THEN "Invalid token"
  ELSE IF t.id \notin UserIds \/ ~users[t.id].isActive THEN "Invalid token or inactive user"
  ELSE "Admin or HR access required"

\* Authorization headers a caller can send: a token some login signed,
\* none, or a string that is no signed token.
BearerIn == tokens \cup {NoToken, BadToken}
\* Every token a login of the model can sign.
SignedTokens == [id : 1..MaxUsers, exp : (1 + TokenTTL)..(MaxClock + TokenTTL)]
RequestIdIn == 1..(MaxReqs + 1)

(* ------------------ POST /approve-registration/:requestId -------------- *)
\* Line 187: auth, adminAuth.
ApproveAuth(p, t, rid) ==
  /\ Free(p)
  /\ t \in BearerIn
  /\ LET me == [Blank EXCEPT !.op = "approve", !.token = t, !.rid = rid]
     IN procs' = [procs EXCEPT ![p] =
          IF AuthStatus(t) # 0
            THEN [me EXCEPT !.pc = "done", !.resp = Resp(AuthStatus(t), AuthMessage(t))]
            ELSE [me EXCEPT !.pc = "apr_findRequest", !.reviewer = t.id]]
  /\ UNCHANGED <<users, requests, notifications, tokens, now, issued, server, browser>>

\* The lookup without the status check of lines 200-202.
ApproveStatusNotChecked(p) ==
  /\ procs[p].pc = "apr_findRequest"
  /\ procs' = [procs EXCEPT ![p] =
       IF procs[p].rid \notin ReqIds
         THEN Done(p, Resp(404, "Registration request not found"))
       ELSE [procs[p] EXCEPT !.pc = "apr_findUser"]]
  /\ UNCHANGED <<users, requests, notifications, tokens, now, issued, server, browser>>

\* Lines 195-202: RegistrationRequest.findById and the status check.
ApproveFindRequest(p) ==
  /\ procs[p].pc = "apr_findRequest"
  /\ procs' = [procs EXCEPT ![p] =
       IF procs[p].rid \notin ReqIds
         THEN Done(p, Resp(404, "Registration request not found"))
       ELSE IF requests[procs[p].rid].status # "pending"
         THEN Done(p, Resp(400, "Registration request has already been processed"))
       ELSE [procs[p] EXCEPT !.pc = "apr_findUser"]]
  /\ UNCHANGED <<users, requests, notifications, tokens, now, issued, server, browser>>

\* Lines 204-208: User.findOne({ email: registrationRequest.email }).
ApproveCheckUser(p) ==
  /\ procs[p].pc = "apr_findUser"
  /\ UsersByEmail(requests[procs[p].rid].email) = {}
       => Len(users) + Cardinality(Approving) < MaxUsers
  /\ procs' = [procs EXCEPT ![p] =
       IF UsersByEmail(requests[procs[p].rid].email) # {}
         THEN Done(p, Resp(400, "User with this email already exists"))
         ELSE [procs[p] EXCEPT !.pc = "apr_count"]]
  /\ UNCHANGED <<users, requests, notifications, tokens, now, issued, server, browser>>

\* The identifier derived from the number of active users only.
generateEmployeeIdActiveOnly(p) ==
  /\ procs[p].pc = "apr_count"
  /\ procs' = [procs EXCEPT ![p] =
       [procs[p] EXCEPT !.pc = "apr_saveUser",
          !.empId = FormatEmployeeId(Cardinality({u \in UserIds : users[u].isActive}))]]
  /\ UNCHANGED <<users, requests, notifications, tokens, now, issued, server, browser>>

\* Lines 15-18, 211: generateEmployeeId reads User.countDocuments().
generateEmployeeId(p) ==
  /\ procs[p].pc = "apr_count"
  /\ procs' = [procs EXCEPT ![p] =
       [procs[p] EXCEPT !.pc = "apr_saveUser", !.empId = FormatEmployeeId(Len(users))]]
  /\ UNCHANGED <<users, requests, notifications, tokens, now, issued, server, browser>>

\* The handler goes on to mark the request without the User being stored.
ApproveUserNotStored(p) ==
  /\ procs[p].pc = "apr_saveUser"
  /\ procs' = [procs EXCEPT ![p] = [procs[p] EXCEPT !.pc = "apr_saveRequest"]]
  /\ UNCHANGED <<users, requests, notifications, tokens, now, issued, server, browser>>

\* Lines 213-227: user.save(); a duplicate key is thrown to the catch of 249-252.
\* name, email, password and role of a request are never written after its
\* creation, so the copy the handler read at findById equals the stored one.
ApproveSaveUser(p) ==
  /\ procs[p].pc = "apr_saveUser"
  /\ LET new == Append(users, NewUser(procs[p].empId, requests[procs[p].rid]))
     IN IF UserIndexOk(new)
          THEN /\ users' = new
               /\ procs' = [procs EXCEPT ![p] = [procs[p] EXCEPT !.pc = "apr_saveRequest"]]
          ELSE /\ users' = users     \* E11000 duplicate key
               /\ procs' = [procs EXCEPT ![p] = Done(p, Resp(500, "E11000 duplicate key"))]
  /\ UNCHANGED <<requests, notifications, tokens, now, issued, server, browser>>

\* Document.save() of a loaded document: $set of the modified paths by _id.
SetReviewed(rid, status, reviewer, reason) ==
  [requests EXCEPT ![rid] =
     [@ EXCEPT !.status = status, !.reviewedAt = now, !.reviewedBy = reviewer,
               !.rejectionReason = reason]]

\* Lines 229-248: the request is marked approved and saved.
ApproveSaveRequest(p) ==
  /\ procs[p].pc = "apr_saveRequest"
  /\ LET new == SetReviewed(procs[p].rid, "approved", procs[p].reviewer,
                            requests[procs[p].rid].rejectionReason)
     IN IF RequestIndexOk(new)
          THEN /\ requests' = new
               /\ procs' = [procs EXCEPT ![p] =
                    Done(p, Resp(200, "Registration approved successfully"))]
          ELSE /\ requests' = requests
               /\ procs' = [procs EXCEPT ![p] = Done(p, Resp(500, "E11000 duplicate key"))]
  /\ UNCHANGED <<users, notifications, tokens, now, issued, server, browser>>

(* ------------------ POST /reject-registration/:requestId --------------- *)
ReasonIn == {"", "incomplete"}

\* Line 256: auth, adminAuth.
RejectAuth(p, t, rid, reason) ==
  /\ Free(p)
  /\ t \in BearerIn
  /\ LET me == [Blank EXCEPT !.op = "reject", !.token = t, !.rid = rid, !.reason = reason]
     IN procs' = [procs EXCEPT ![p] =
          IF AuthStatus(t) # 0
            THEN [me EXCEPT !.pc = "done", !.resp = Resp(AuthStatus(t), AuthMessage(t))]
            ELSE [me EXCEPT !.pc = "rej_findRequest", !.reviewer = t.id]]
  /\ UNCHANGED <<users, requests, notifications, tokens, now, issued, server, browser>>

\* Lines 266-273.
RejectFindRequest(p) ==
  /\ procs[p].pc = "rej_findRequest"
  /\ procs' = [procs EXCEPT ![p] =
       IF procs[p].rid \notin ReqIds
         THEN Done(p, Resp(404, "Registration request not found"))
       ELSE IF requests[procs[p].rid].status # "pending"
         THEN Done(p, Resp(400, "Registration request has already been processed"))
       ELSE [procs[p] EXCEPT !.pc = "rej_saveRequest"]]
  /\ UNCHANGED <<users, requests, notifications, tokens, now, issued, server, browser>>

\* The save with the reason as the body gave it, without the default of
\* line 279.
RejectReasonNotDefaulted(p) ==
  /\ procs[p].pc = "rej_saveRequest"
  /\ requests' = SetReviewed(procs[p].rid, "rejected", procs[p].reviewer, procs[p].reason)
  /\ procs' = [procs EXCEPT ![p] = Done(p, Resp(200, "Registration request rejected successfully"))]
  /\ UNCHANGED <<users, notifications, tokens, now, issued, server, browser>>

\* Lines 275-287.
RejectSaveRequest(p) ==
  /\ procs[p].pc = "rej_saveRequest"
  /\ requests' = SetReviewed(procs[p].rid, "rejected", procs[p].reviewer,
                             IF procs[p].reason = "" THEN "No reason provided"
                                                     ELSE procs[p].reason)
  /\ procs' = [procs EXCEPT ![p] = Done(p, Resp(200, "Registration request rejected successfully"))]
  /\ UNCHANGED <<users, notifications, tokens, now, issued, server, browser>>


(* ---------------------- GET /registration-requests --------------------- *)
\* Line 159: const { status, page = 1, limit = 10 } = req.query
DefaultPage == 1
DefaultLimit == 10
Query(status, page, limit) ==
  [status |-> status,
   page |-> IF page = 0 THEN DefaultPage ELSE page,
   limit |-> IF limit = 0 THEN DefaultLimit ELSE limit]

\* Lines 161-164: the filter, `status` only when the query names one.
Selected(q) == {r \in ReqIds : q.status = "" \/ requests[r].status = q.status}

\* .sort({ createdAt: -1 }): documents are numbered in creation order.
RECURSIVE NewestFirst(_)
NewestFirst(S) ==
  IF S = {} THEN <<>>
  ELSE LET m == CHOOSE x \in S : \A y \in S : y <= x
       IN <<m>> \o NewestFirst(S \ {m})

Min(a, b) == IF a <= b THEN a ELSE b
\* Math.ceil(total / limit)
CeilDiv(a, b) == (a + b - 1) \div b

\* Lines 166-170: find(query).sort(...).limit(limit).skip((page - 1) * limit)
FindPage(q) ==
  LET all == NewestFirst(Selected(q))
      skip == (q.page - 1) * q.limit
  IN SubSeq(all, skip + 1, Min(skip + q.limit, Len(all)))

\* Line 157: auth, adminAuth.  0 stands for a query parameter left out.
ListAuth(p, t, status, page, limit) ==
  /\ Free(p)
  /\ t \in BearerIn
  /\ LET me == [Blank EXCEPT !.op = "list", !.token = t,
                  !.query = Query(status, page, limit)]
     IN procs' = [procs EXCEPT ![p] =
          IF AuthStatus(t) # 0
            THEN [me EXCEPT !.pc = "done", !.resp = Resp(AuthStatus(t), AuthMessage(t))]
            ELSE [me EXCEPT !.pc = "list_find"]]
  /\ UNCHANGED <<users, requests, notifications, tokens, now, issued, server, browser>>

\* Lines 166-170.
ListFind(p) ==
  /\ procs[p].pc = "list_find"
  /\ procs' = [procs EXCEPT ![p] =
       [procs[p] EXCEPT !.pc = "list_count",
                        !.resp = [NoResp EXCEPT !.list = FindPage(procs[p].query)]]]
  /\ UNCHANGED <<users, requests, notifications, tokens, now, issued, server, browser>>

\* Lines 172-179: countDocuments(query) and the response.
ListCount(p) ==
  /\ procs[p].pc = "list_count"
  /\ LET total == Cardinality(Selected(procs[p].query))
     IN procs' = [procs EXCEPT ![p] =
          Done(p, [procs[p].resp EXCEPT !.status = 200,
                     !.paging = [total |-> total,
                                 totalPages |-> CeilDiv(total, procs[p].query.limit),
                                 currentPage |-> procs[p].query.page]])]
  /\ UNCHANGED <<users, requests, notifications, tokens, now, issued, server, browser>>

(* ------------------------ GET /registration-stats ---------------------- *)
\* Line 295: auth, adminAuth.
StatsAuth(p, t) ==
  /\ Free(p)
  /\ t \in BearerIn
  /\ LET me == [Blank EXCEPT !.op = "stats", !.token = t]
     IN procs' = [procs EXCEPT ![p] =
          IF AuthStatus(t) # 0
            THEN [me EXCEPT !.pc = "done", !.resp = Resp(AuthStatus(t), AuthMessage(t))]
            ELSE [me EXCEPT !.pc = "stats_aggregate"]]
  /\ UNCHANGED <<users, requests, notifications, tokens, now, issued, server, browser>>

\* $group by status with $sum: 1
CountByStatus(st) == Cardinality({r \in ReqIds : requests[r].status = st})

\* Lines 297-318.
StatsAggregate(p) ==
  /\ procs[p].pc = "stats_aggregate"
  /\ procs' = [procs EXCEPT ![p] =
       Done(p, [NoResp EXCEPT !.status = 200,
                  !.stats = [pending |-> CountByStatus("pending"),
                             approved |-> CountByStatus("approved"),
                             rejected |-> CountByStatus("rejected"),
                             total |-> CountByStatus("pending") + CountByStatus("approved")
                                         + CountByStatus("rejected")]])]
  /\ UNCHANGED <<users, requests, notifications, tokens, now, issued, server, browser>>

(* ----------------------------- GET /profile ---------------------------- *)
\* User.findById(id).select("-password")
WithoutPassword(uid) ==
  [f \in DOMAIN users[uid] \ {"password"} |-> users[uid][f]]

\* Lines 45-59 and 612-623: verifyToken leaves the decoded payload in
\* req.user; the handler looks the user up by req.user.userId.
GetProfile(p, t) ==
  /\ Free(p)
  /\ t \in BearerIn
  /\ LET me == [Blank EXCEPT !.op = "profile", !.token = t]
         out(r) == [me EXCEPT !.pc = "done", !.resp = r]
         uid == PayloadClaim(t, "userId")
     IN procs' = [procs EXCEPT ![p] =
          IF t = NoToken THEN out(Resp(401, "Access denied. No token provided."))
          ELSE IF ~JwtVerify(t) THEN out(Resp(401, "Invalid token."))
          ELSE IF uid \notin UserIds THEN out(Resp(404, "User not found"))
          ELSE out([NoResp EXCEPT !.status = 200, !.user = WithoutPassword(uid)])]
  /\ UNCHANGED <<users, requests, notifications, tokens, now, issued, server, browser>>

(* -------------------------- POST /forgot-password ---------------------- *)
\* Line 469: Date.now() + 3600000, one hour of the clock.
ResetTTL == 1
\* resetPasswordToken of a user that has none; the `token` of a body
\* without one.
NoResetToken == 0

\* Lines 420-476: validation, User.findOne (active, regex), the mail
\* configuration of the environment, crypto.randomBytes and the expiry.
\* `configured` stands for EMAIL_USER and EMAIL_PASS being set.
ForgotFindUser(p, email, configured) ==
  /\ Free(p)
  /\ LET me == [Blank EXCEPT !.op = "forgot", !.email = email]
         out(r) == [me EXCEPT !.pc = "done", !.resp = r]
         found == ActiveUsersMatching(email)
     IN IF email = ""
          THEN /\ procs' = [procs EXCEPT ![p] = out(Resp(400, "Email is required"))]
               /\ issued' = issued
        ELSE IF found = {}
          THEN /\ procs' = [procs EXCEPT ![p] =
                    out(Resp(404, "Sorry, no user exists with this email address"))]
               /\ issued' = issued
        ELSE IF ~configured
          THEN /\ procs' = [procs EXCEPT ![p] =
                    out(Resp(500, "Email service is not configured"))]
               /\ issued' = issued
        ELSE /\ issued < MaxResets
             /\ issued' = issued + 1
             /\ procs' = [procs EXCEPT ![p] =
                  [me EXCEPT !.pc = "fp_saveToken", !.uid = First(found),
                             !.reset = issued + 1, !.expiry = now + ResetTTL]]
  /\ UNCHANGED <<users, requests, notifications, tokens, now, server, browser>>

\* The save that leaves a token the user already holds in place.
ForgotSaveTokenKeepsFirst(p) ==
  /\ procs[p].pc = "fp_saveToken"
  /\ users' = [users EXCEPT ![procs[p].uid] =
       IF @.resetPasswordToken # NoResetToken THEN @
       ELSE [@ EXCEPT !.resetPasswordToken = procs[p].reset,
                      !.resetPasswordExpiry = procs[p].expiry]]
  /\ procs' = [procs EXCEPT ![p] = [procs[p] EXCEPT !.pc = "fp_verify"]]
  /\ UNCHANGED <<requests, notifications, tokens, now, issued, server, browser>>

\* Lines 473-476: user.save() with the token and its expiry.
ForgotSaveToken(p) ==
  /\ procs[p].pc = "fp_saveToken"
  /\ users' = [users EXCEPT ![procs[p].uid] =
       [@ EXCEPT !.resetPasswordToken = procs[p].reset,
                 !.resetPasswordExpiry = procs[p].expiry]]
  /\ procs' = [procs EXCEPT ![p] = [procs[p] EXCEPT !.pc = "fp_verify"]]
  /\ UNCHANGED <<requests, notifications, tokens, now, issued, server, browser>>

\* Lines 497-503: transporter.verify() resolves or rejects.
ForgotVerify(p, ok) ==
  /\ procs[p].pc = "fp_verify"
  /\ procs' = [procs EXCEPT ![p] =
       [procs[p] EXCEPT !.pc = IF ok THEN "fp_send" ELSE "fp_clearToken"]]
  /\ UNCHANGED <<users, requests, notifications, tokens, now, issued, server, browser>>

\* Lines 504-523: the token is cleared and the error answered.
ForgotClearToken(p) ==
  /\ procs[p].pc = "fp_clearToken"
  /\ users' = [users EXCEPT ![procs[p].uid] =
       [@ EXCEPT !.resetPasswordToken = NoResetToken, !.resetPasswordExpiry = 0]]
  /\ procs' = [procs EXCEPT ![p] =
       Done(p, Resp(500, "Email service configuration error"))]
  /\ UNCHANGED <<requests, notifications, tokens, now, issued, server, browser>>

\* Lines 538-555: transporter.sendMail() resolves, or rejects into the
\* catch of the handler.
ForgotSend(p, ok) ==
  /\ procs[p].pc = "fp_send"
  /\ procs' = [procs EXCEPT ![p] =
       IF ok THEN Done(p, [NoResp EXCEPT !.status = 200,
                             !.msg = "If this email exists in our system, you will receive a password reset link shortly"])
             ELSE Done(p, Resp(500, "Internal server error. Please try again later."))]
  /\ UNCHANGED <<users, requests, notifications, tokens, now, issued, server, browser>>

(* -------------------------- POST /reset-password ----------------------- *)
\* The lookup by token without the condition on the expiry.
UsersByResetTokenExpiredToo(token) ==
  {u \in UserIds : users[u].resetPasswordToken = token /\ users[u].isActive}

\* User.findOne({ resetPasswordToken, resetPasswordExpiry: { $gt: Date.now() },
\*                isActive: true })
UsersByResetToken(token) ==
  {u \in UserIds : /\ users[u].resetPasswordToken = token
                   /\ users[u].resetPasswordExpiry > now
                   /\ users[u].isActive}

\* Lines 560-586: validation and the lookup by token.
ResetFindUser(p, token, newPassword) ==
  /\ Free(p)
  /\ LET me == [Blank EXCEPT !.op = "reset", !.reset = token, !.password = newPassword]
         out(r) == [me EXCEPT !.pc = "done", !.resp = r]
     IN procs' = [procs EXCEPT ![p] =
          IF token = NoResetToken \/ newPassword = ""
            THEN out(Resp(400, "Reset token and new password are required"))
          ELSE IF PasswordLength(newPassword) < MinPasswordLength
            THEN out(Resp(400, "Password must be at least 6 characters long"))
          ELSE IF UsersByResetToken(token) = {}
            THEN out(Resp(400, "Invalid or expired reset token"))
          ELSE [me EXCEPT !.pc = "rp_save", !.uid = First(UsersByResetToken(token))]]
  /\ UNCHANGED <<users, requests, notifications, tokens, now, issued, server, browser>>

\* The save that clears token and expiry and leaves the password.
ResetSaveTokenOnly(p) ==
  /\ procs[p].pc = "rp_save"
  /\ users' = [users EXCEPT ![procs[p].uid] =
       [@ EXCEPT !.resetPasswordToken = NoResetToken, !.resetPasswordExpiry = 0]]
  /\ procs' = [procs EXCEPT ![p] = Done(p, Resp(200, "Password reset successful"))]
  /\ UNCHANGED <<requests, notifications, tokens, now, issued, server, browser>>

\* Lines 590-605: the new hash is stored, token and expiry are cleared.
ResetSave(p) ==
  /\ procs[p].pc = "rp_save"
  /\ users' = [users EXCEPT ![procs[p].uid] =
       [@ EXCEPT !.password = Hash(procs[p].password),
                 !.resetPasswordToken = NoResetToken, !.resetPasswordExpiry = 0]]
  /\ procs' = [procs EXCEPT ![p] = Done(p, Resp(200, "Password reset successful"))]
  /\ UNCHANGED <<requests, notifications, tokens, now, issued, server, browser>>

(* ----------------------- handler ends, failures ------------------------ *)
InFlight(p) == procs[p].pc \notin {"idle", "done"}

\* The response has been sent; the slot serves the next request.
Release(p) ==
  /\ procs[p].pc = "done"
  /\ procs' = [procs EXCEPT ![p] = Blank]
  /\ UNCHANGED <<users, requests, notifications, tokens, now, issued, server, browser>>

\* A store call rejects (timeout, lost connection): the handler's catch
\* answers 500 (lines 147-153, 249-252, 288-291, 410-413).
StoreError(p) ==
  /\ InFlight(p)
  /\ procs' = [procs EXCEPT ![p] = Done(p, Resp(500, "store error"))]
  /\ UNCHANGED <<users, requests, notifications, tokens, now, issued, server, browser>>

\* The server process dies: every handler in flight stops where it is and
\* answers nothing.
Crash ==
  /\ \E p \in Procs : InFlight(p)
  /\ procs' = [p \in Procs |-> IF InFlight(p) THEN Blank ELSE procs[p]]
  /\ UNCHANGED <<users, requests, notifications, tokens, now, issued, server, browser>>

\* Deactivation of a user (user management, outside routes/auth.js):
\* the active flag is set false, the document stays.
Deactivate(u) ==
  /\ u \in UserIds
  /\ users[u].isActive
  /\ users' = [users EXCEPT ![u].isActive = FALSE]
  /\ UNCHANGED <<requests, notifications, tokens, now, issued, procs, server, browser>>

\* An hour passes.
Tick ==
  /\ now < MaxClock
  /\ now' = now + 1
  /\ UNCHANGED <<users, requests, notifications, tokens, issued, procs, server, browser>>

(* -------------------- serverless server (part_001) --------------------- *)
\* Lines 168-200: the routers mounted under /api behind ensureDbConnection.
ApiRoutes == {"auth", "attendance", "users", "leave"}

\* Lines 61-94 and 97: the attempt of module load settles; mongoose.connect
\* resolves (line 86) or rejects (line 91), and console.error takes the
\* rejection.
StartupSettle(ok) ==
  /\ startup = "connecting"
  /\ startup' = "settled"
  /\ isConnected' = ok
  /\ readyState' = IF ok THEN 1 ELSE readyState
  /\ UNCHANGED <<users, requests, notifications, tokens, now, issued, procs, browser>>

\* Lines 143-162: GET /api/health, registered ahead of the middleware of
\* line 165, reports mongoose.connection.readyState.
HealthCheck(p) ==
  /\ Free(p)
  /\ procs' = [procs EXCEPT ![p] =
       [Blank EXCEPT !.op = "health", !.pc = "done",
          !.resp = Resp(200, IF readyState = 1 THEN "Connected" ELSE "Disconnected")]]
  /\ UNCHANGED <<users, requests, notifications, tokens, now, issued, server, browser>>

\* Lines 100-105 and 61-64: ensureDbConnection reads the flag; when it is
\* false connectToDatabase reads it again and calls mongoose.connect.
EnsureDbConnection(p, route) ==
  /\ Free(p)
  /\ procs' = [procs EXCEPT ![p] =
       [Blank EXCEPT !.op = route,
          !.pc = IF isConnected THEN "route" ELSE "db_connect"]]
  /\ UNCHANGED <<users, requests, notifications, tokens, now, issued, server, browser>>

\* Lines 85-93 and 103-112: the attempt of a request settles; next() on
\* success, the 500 answer on failure.
ConnectSettle(p, ok) ==
  /\ procs[p].pc = "db_connect"
  /\ isConnected' = ok
  /\ readyState' = IF ok THEN 1 ELSE readyState
  /\ procs' = [procs EXCEPT ![p] =
       IF ok THEN [procs[p] EXCEPT !.pc = "route"]
       ELSE Done(p, Resp(500, "Database connection failed"))]
  /\ UNCHANGED <<users, requests, notifications, tokens, now, issued, startup, browser>>

\* Lines 168-200: the router of the path answers.
RouteHandler(p) ==
  /\ procs[p].pc = "route"
  /\ procs' = [procs EXCEPT ![p] = Done(p, Resp(200, "route handler"))]
  /\ UNCHANGED <<users, requests, notifications, tokens, now, issued, server, browser>>

(* ------------------- frontend token store (api.js) --------------------- *)
\* The tokens a login hands to setAuthToken.
LoginTokens == {Str("t1"), Str("t2"), Str("t3")}

\* Lines 15-18.
setAuthToken(token) ==
  /\ authToken' = token
  /\ sessionStorage' = StringOf(token)
  /\ UNCHANGED <<users, requests, notifications, tokens, now, issued, procs,
                 server, returned, authorization, pending>>

\* clearAuthToken without the removeItem of line 23.
clearAuthTokenMemoryOnly ==
  /\ authToken' = Null
  /\ UNCHANGED <<users, requests, notifications, tokens, now, issued, procs,
                 server, sessionStorage, returned, authorization, pending>>

\* Lines 21-24.
clearAuthToken ==
  /\ authToken' = Null
  /\ sessionStorage' = Null
  /\ UNCHANGED <<users, requests, notifications, tokens, now, issued, procs,
                 server, returned, authorization, pending>>

\* Lines 27-37: what getAuthToken returns, and authToken after the call.
GetAuthTokenValue ==
  IF Truthy(authToken) THEN authToken
  ELSE IF Truthy(sessionStorage) THEN sessionStorage
  ELSE Null
GetAuthTokenMemory ==
  IF Truthy(authToken) THEN authToken
  ELSE IF Truthy(sessionStorage) THEN sessionStorage
  ELSE authToken

getAuthToken ==
  /\ returned' = GetAuthTokenValue
  /\ authToken' = GetAuthTokenMemory
  /\ UNCHANGED <<users, requests, notifications, tokens, now, issued, procs,
                 server, sessionStorage, authorization, pending>>

\* Lines 40-47: the request interceptor; the request leaves with the
\* header, or without one (Null).
SendRequest ==
  /\ pending < MaxPending
  /\ authorization' = (IF Truthy(GetAuthTokenValue) THEN GetAuthTokenValue ELSE Null)
  /\ authToken' = GetAuthTokenMemory
  /\ pending' = pending + 1
  /\ UNCHANGED <<users, requests, notifications, tokens, now, issued, procs,
                 server, sessionStorage, returned>>

\* Lines 54-63: the response interceptor; a 401 clears the token and loads
\* /login.
Respond(status) ==
  /\ pending > 0
  /\ IF status = 401
       THEN authToken' = Null /\ sessionStorage' = Null /\ pending' = 0
       ELSE authToken' = authToken /\ sessionStorage' = sessionStorage
            /\ pending' = pending - 1
  /\ UNCHANGED <<users, requests, notifications, tokens, now, issued, procs,
                 server, returned, authorization>>

\* Line 4: the page is loaded again in the same tab; the module starts
\* with authToken null, sessionStorage is kept.
Reload ==
  /\ authToken' = Null
  /\ pending' = 0
  /\ UNCHANGED <<users, requests, notifications, tokens, now, issued, procs,
                 server, sessionStorage, returned, authorization>>

(* --------------------------- specification ----------------------------- *)
\* server.js, the long-running server: the requests arrive after connectDB
\* has resolved (the process exits when it rejects).
ServerConnected ==
  /\ isConnected = TRUE
  /\ readyState = 1
  /\ startup = "settled"

\* A tab that has loaded the frontend and has not logged in.
BrowserClosed ==
  /\ authToken = Null
  /\ sessionStorage = Null
  /\ returned = Null
  /\ authorization = Null
  /\ pending = 0

SeedUser ==
  [employeeId |-> FormatEmployeeId(0), email |-> SeedEmail,
   password |-> Hash(SeedPassword), profile |-> ProfileOf(SeedEmail),
   role |-> "admin", isActive |-> TRUE,
   resetPasswordToken |-> 0, resetPasswordExpiry |-> 0]

SeedRequest ==
  [email |-> SeedEmail, password |-> Hash(SeedPassword),
   profile |-> ProfileOf(SeedEmail), role |-> "admin",
   status |-> "approved", reviewedBy |-> 0, reviewedAt |-> 0,
   rejectionReason |-> ""]

\* A fresh installation, or one whose first administrator is in place.
Init ==
  /\ \/ users = <<>> /\ requests = <<>>
     \/ users = <<SeedUser>> /\ requests = <<SeedRequest>>
  /\ notifications = [r \in 1..MaxReqs |-> 0]
  /\ tokens = {}
  /\ now = 1
  /\ issued = 0
  /\ procs = [p \in Procs |-> Blank]
  /\ ServerConnected
  /\ BrowserClosed

\* The request bodies tried: complete and valid ones for every address and
\* role, and one body for each way validation can fail.
RegBody(f, e, pw, r, c) == [fields |-> f, email |-> e, password |-> pw, role |-> r, code |-> c]
ValidBodies(roles) ==
  {RegBody(TRUE, e, pw, r, ADMIN_VERIFICATION_CODE) :
     e \in RegEmails, pw \in Passwords, r \in roles}
InvalidBodies ==
  {RegBody(FALSE, "a@x", "secret1", "", ADMIN_VERIFICATION_CODE),
   RegBody(TRUE, "", "secret1", "", ADMIN_VERIFICATION_CODE),
   RegBody(TRUE, "a@x", "", "", ADMIN_VERIFICATION_CODE),
   RegBody(TRUE, "a@x", "secret1", "", ""),
   RegBody(TRUE, "a@x", "abc", "", ADMIN_VERIFICATION_CODE),
   RegBody(TRUE, "a@x", "secret1", "", "WRONG"),
   RegBody(TRUE, "b@x", "abc", "admin", "WRONG")}

\* The registration workflow under concurrency: an installation whose
\* administrator holds a session token; register, approve and reject
\* handlers interleave, store calls may fail and the server may crash.
\* (Login writes no collection, so the stores reached are the same with it.)
InitWorkflow ==
  /\ users = <<SeedUser>>
  /\ requests = <<SeedRequest>>
  /\ notifications = [r \in 1..MaxReqs |-> 0]
  /\ now = 1
  /\ tokens = {JwtSign(1)}
  /\ issued = 0
  /\ procs = [p \in Procs |-> Blank]
  /\ ServerConnected
  /\ BrowserClosed

NextWorkflow ==
  \/ \E p \in Procs, b \in ValidBodies({""}) :
       RegisterCheckUser(p, b.fields, b.email, b.password, b.role, b.code)
  \/ \E p \in Procs : RegisterCheckRequest(p)
  \/ \E p \in Procs : RegisterSaveRequest(p)
  \/ \E p \in Procs : RegisterSaveNotification(p)
  \/ \E p \in Procs, t \in SignedTokens, rid \in RequestIdIn : ApproveAuth(p, t, rid)
  \/ \E p \in Procs : ApproveFindRequest(p)
  \/ \E p \in Procs : ApproveCheckUser(p)
  \/ \E p \in Procs : generateEmployeeId(p)
  \/ \E p \in Procs : ApproveSaveUser(p)
  \/ \E p \in Procs : ApproveSaveRequest(p)
  \/ \E p \in Procs, t \in SignedTokens, rid \in RequestIdIn : RejectAuth(p, t, rid, "")
  \/ \E p \in Procs : RejectFindRequest(p)
  \/ \E p \in Procs : RejectSaveRequest(p)
  \/ \E p \in Procs : Release(p)
  \/ \E p \in Procs : StoreError(p)
  \/ Crash

Spec == InitWorkflow /\ [][NextWorkflow]_vars

\* One registrant and the decisions on their requests, with logins, under
\* concurrency: handlers interleave, no store call fails.
NextDecide ==
  \/ \E p \in Procs :
       RegisterCheckUser(p, TRUE, "a@x", "secret1", "", ADMIN_VERIFICATION_CODE)
  \/ \E p \in Procs : RegisterCheckRequest(p)
  \/ \E p \in Procs : RegisterSaveRequest(p)
  \/ \E p \in Procs : RegisterSaveNotification(p)
  \/ \E p \in Procs, t \in SignedTokens, rid \in RequestIdIn : ApproveAuth(p, t, rid)
  \/ \E p \in Procs : ApproveFindRequest(p)
  \/ \E p \in Procs : ApproveCheckUser(p)
  \/ \E p \in Procs : generateEmployeeId(p)
  \/ \E p \in Procs : ApproveSaveUser(p)
  \/ \E p \in Procs : ApproveSaveRequest(p)
  \/ \E p \in Procs, t \in SignedTokens, rid \in RequestIdIn, rs \in ReasonIn :
       RejectAuth(p, t, rid, rs)
  \/ \E p \in Procs : RejectFindRequest(p)
  \/ \E p \in Procs : RejectSaveRequest(p)
  \/ \E p \in Procs : LoginFindUser(p, "a@x", "secret1")
  \/ \E p \in Procs : LoginFindPending(p)
  \/ \E p \in Procs : LoginFindRejected(p)
  \/ \E p \in Procs : Release(p)

SpecDecide == InitWorkflow /\ [][NextDecide]_vars


\* The slot of a server that takes one request at a time.
SeqProcs == {1}

\* An installation with its administrator and one employee whom the
\* administrator approved.
StaffUser ==
  [employeeId |-> FormatEmployeeId(1), email |-> "a@x",
   password |-> Hash("secret1"), profile |-> ProfileOf("a@x"),
   role |-> "employee", isActive |-> TRUE,
   resetPasswordToken |-> NoResetToken, resetPasswordExpiry |-> 0]

StaffRequest ==
  [email |-> "a@x", password |-> Hash("secret1"),
   profile |-> ProfileOf("a@x"), role |-> "employee",
   status |-> "approved", reviewedBy |-> 1, reviewedAt |-> 1,
   rejectionReason |-> ""]

InitStaffed ==
  /\ users = <<SeedUser, StaffUser>>
  /\ requests = <<SeedRequest, StaffRequest>>
  /\ notifications = [r \in 1..MaxReqs |-> IF r = 2 THEN 1 ELSE 0]
  /\ tokens = {}
  /\ now = 1
  /\ issued = 0
  /\ procs = [p \in Procs |-> Blank]
  /\ ServerConnected
  /\ BrowserClosed

\* Password reset, one request at a time: reset requests for known and
\* unknown addresses with the mail service configured or not and
\* delivering or not, confirmations with any token, logins with old and
\* new passwords, the clock, deactivation.
ForgotEmails == {"", "root@x", "a@x", "A@X", "c@x"}
ResetTokenIn == 0..(MaxResets + 1)
NewPasswords == {"", "abc", "secret2"}
ResetLogins ==
  {LoginBody("a@x", "secret1"), LoginBody("a@x", "secret2"),
   LoginBody(SeedEmail, SeedPassword), LoginBody(SeedEmail, "secret2")}

NextReset ==
  \/ \E p \in SeqProcs, e \in ForgotEmails, c \in BOOLEAN : ForgotFindUser(p, e, c)
  \/ \E p \in SeqProcs : ForgotSaveToken(p)
  \/ \E p \in SeqProcs, ok \in BOOLEAN : ForgotVerify(p, ok)
  \/ \E p \in SeqProcs : ForgotClearToken(p)
  \/ \E p \in SeqProcs, ok \in BOOLEAN : ForgotSend(p, ok)
  \/ \E p \in SeqProcs, t \in ResetTokenIn, pw \in NewPasswords : ResetFindUser(p, t, pw)
  \/ \E p \in SeqProcs : ResetSave(p)
  \/ \E p \in SeqProcs, b \in ResetLogins : LoginFindUser(p, b.email, b.password)
  \/ \E p \in SeqProcs : LoginFindPending(p)
  \/ \E p \in SeqProcs : LoginFindRejected(p)
  \/ \E p \in SeqProcs : Release(p)
  \/ \E u \in 1..MaxUsers : Deactivate(u)
  \/ Tick

SpecReset == InitStaffed /\ [][NextReset]_vars

\* Password reset under concurrency: reset requests and confirmations of
\* the employee interleave.
NextResetRace ==
  \/ \E p \in Procs : ForgotFindUser(p, "a@x", TRUE)
  \/ \E p \in Procs : ForgotSaveToken(p)
  \/ \E p \in Procs, ok \in BOOLEAN : ForgotVerify(p, ok)
  \/ \E p \in Procs : ForgotClearToken(p)
  \/ \E p \in Procs, ok \in BOOLEAN : ForgotSend(p, ok)
  \/ \E p \in Procs, t \in 1..MaxResets, pw \in {"secret2", "secret3"} :
       ResetFindUser(p, t, pw)
  \/ \E p \in Procs : ResetSave(p)
  \/ \E p \in Procs : Release(p)
  \/ Tick

SpecResetRace == InitStaffed /\ [][NextResetRace]_vars

\* Deactivated accounts at the three endpoints that look a User up by
\* email, one request at a time: registration, login, reset request.
NextInactive ==
  \/ \E p \in SeqProcs, b \in ValidBodies({""}) :
       RegisterCheckUser(p, b.fields, b.email, b.password, b.role, b.code)
  \/ \E p \in SeqProcs : RegisterCheckRequest(p)
  \/ \E p \in SeqProcs : RegisterSaveRequest(p)
  \/ \E p \in SeqProcs : RegisterSaveNotification(p)
  \/ \E p \in SeqProcs, b \in ResetLogins : LoginFindUser(p, b.email, b.password)
  \/ \E p \in SeqProcs : LoginFindPending(p)
  \/ \E p \in SeqProcs : LoginFindRejected(p)
  \/ \E p \in SeqProcs, e \in ForgotEmails, c \in BOOLEAN : ForgotFindUser(p, e, c)
  \/ \E p \in SeqProcs : ForgotSaveToken(p)
  \/ \E p \in SeqProcs, ok \in BOOLEAN : ForgotVerify(p, ok)
  \/ \E p \in SeqProcs : ForgotClearToken(p)
  \/ \E p \in SeqProcs, ok \in BOOLEAN : ForgotSend(p, ok)
  \/ \E p \in SeqProcs : Release(p)
  \/ \E u \in 1..MaxUsers : Deactivate(u)

SpecInactive == InitStaffed /\ [][NextInactive]_vars

\* The serverless server from module load on: the attempt of module load
\* and the requests that arrive, with every outcome of an attempt.
InitServerless ==
  /\ users = <<SeedUser>>
  /\ requests = <<SeedRequest>>
  /\ notifications = [r \in 1..MaxReqs |-> 0]
  /\ tokens = {}
  /\ now = 1
  /\ issued = 0
  /\ procs = [p \in Procs |-> Blank]
  /\ isConnected = FALSE
  /\ readyState = 0
  /\ startup = "connecting"
  /\ BrowserClosed

NextServerless ==
  \/ \E ok \in BOOLEAN : StartupSettle(ok)
  \/ \E p \in Procs : HealthCheck(p)
  \/ \E p \in Procs, route \in ApiRoutes : EnsureDbConnection(p, route)
  \/ \E p \in Procs, ok \in BOOLEAN : ConnectSettle(p, ok)
  \/ \E p \in Procs : RouteHandler(p)
  \/ \E p \in Procs : Release(p)

SpecServerless == InitServerless /\ [][NextServerless]_vars

\* The token store of one tab: logins, logouts, requests and their
\* answers, page loads.
NextBrowser ==
  \/ \E t \in LoginTokens : setAuthToken(t)
  \/ clearAuthToken
  \/ getAuthToken
  \/ SendRequest
  \/ \E status \in {200, 401, 500} : Respond(status)
  \/ Reload

SpecBrowser == InitWorkflow /\ [][NextBrowser]_vars

\* Every endpoint, one request at a time, on a fresh installation or on one
\* whose first administrator is in place; users may be deactivated.
\* Query strings of the listing: none, a status filter, a page of one.
ListQueries ==
  {[status |-> "", page |-> 0, limit |-> 0],
   [status |-> "pending", page |-> 0, limit |-> 0],
   [status |-> "", page |-> 2, limit |-> 1]}

NextApi ==
  \/ \E p \in SeqProcs, b \in ValidBodies({"", "admin", "hr"}) \cup InvalidBodies :
       RegisterCheckUser(p, b.fields, b.email, b.password, b.role, b.code)
  \/ \E p \in SeqProcs : RegisterCheckRequest(p)
  \/ \E p \in SeqProcs : RegisterSaveRequest(p)
  \/ \E p \in SeqProcs : RegisterSaveNotification(p)
  \/ \E p \in SeqProcs, t \in SignedTokens \cup {NoToken, BadToken}, rid \in RequestIdIn :
       ApproveAuth(p, t, rid)
  \/ \E p \in SeqProcs : ApproveFindRequest(p)
  \/ \E p \in SeqProcs : ApproveCheckUser(p)
  \/ \E p \in SeqProcs : generateEmployeeId(p)
  \/ \E p \in SeqProcs : ApproveSaveUser(p)
  \/ \E p \in SeqProcs : ApproveSaveRequest(p)
  \/ \E p \in SeqProcs, t \in SignedTokens \cup {NoToken, BadToken}, rid \in RequestIdIn,
        rs \in ReasonIn : RejectAuth(p, t, rid, rs)
  \/ \E p \in SeqProcs : RejectFindRequest(p)
  \/ \E p \in SeqProcs : RejectSaveRequest(p)
  \/ \E p \in SeqProcs, b \in LoginBodies : LoginFindUser(p, b.email, b.password)
  \/ \E p \in SeqProcs : LoginFindPending(p)
  \/ \E p \in SeqProcs : LoginFindRejected(p)
  \/ \E p \in SeqProcs, t \in SignedTokens \cup {NoToken, BadToken}, q \in ListQueries :
       ListAuth(p, t, q.status, q.page, q.limit)
  \/ \E p \in SeqProcs : ListFind(p)
  \/ \E p \in SeqProcs : ListCount(p)
  \/ \E p \in SeqProcs, t \in SignedTokens \cup {NoToken, BadToken} : StatsAuth(p, t)
  \/ \E p \in SeqProcs : StatsAggregate(p)
  \/ \E p \in SeqProcs, t \in SignedTokens \cup {NoToken, BadToken} : GetProfile(p, t)
  \/ \E p \in SeqProcs : Release(p)
  \/ \E u \in 1..MaxUsers : Deactivate(u)

SpecApi == Init /\ [][NextApi]_vars

\* Submission and the administrator's view of it, one request at a time:
\* valid and invalid bodies, decisions and listings by token holders, the
\* administrator's login.
NextSubmit ==
  \/ \E p \in SeqProcs, b \in ValidBodies({""}) \cup InvalidBodies :
       RegisterCheckUser(p, b.fields, b.email, b.password, b.role, b.code)
  \/ \E p \in SeqProcs : RegisterCheckRequest(p)
  \/ \E p \in SeqProcs : RegisterSaveRequest(p)
  \/ \E p \in SeqProcs : RegisterSaveNotification(p)
  \/ \E p \in SeqProcs, t \in SignedTokens, rid \in RequestIdIn : ApproveAuth(p, t, rid)
  \/ \E p \in SeqProcs : ApproveFindRequest(p)
  \/ \E p \in SeqProcs : ApproveCheckUser(p)
  \/ \E p \in SeqProcs : generateEmployeeId(p)
  \/ \E p \in SeqProcs : ApproveSaveUser(p)
  \/ \E p \in SeqProcs : ApproveSaveRequest(p)
  \/ \E p \in SeqProcs, t \in SignedTokens, rid \in RequestIdIn : RejectAuth(p, t, rid, "")
  \/ \E p \in SeqProcs : RejectFindRequest(p)
  \/ \E p \in SeqProcs : RejectSaveRequest(p)
  \/ \E p \in SeqProcs : LoginFindUser(p, SeedEmail, SeedPassword)
  \/ \E p \in SeqProcs : LoginFindPending(p)
  \/ \E p \in SeqProcs : LoginFindRejected(p)
  \/ \E p \in SeqProcs, t \in SignedTokens, q \in ListQueries :
       ListAuth(p, t, q.status, q.page, q.limit)
  \/ \E p \in SeqProcs : ListFind(p)
  \/ \E p \in SeqProcs : ListCount(p)
  \/ \E p \in SeqProcs : Release(p)

SpecSubmit == Init /\ [][NextSubmit]_vars

\* The administration endpoints and their callers, one request at a time:
\* registrants of both roles, logins with the right password, callers with
\* any token or none, deactivation of users.
AdminLogins ==
  {LoginBody(SeedEmail, SeedPassword), LoginBody("a@x", "secret1"),
   LoginBody("b@x", "secret1")}

NextAdmin ==
  \/ \E p \in SeqProcs, b \in ValidBodies({"", "hr"}) :
       RegisterCheckUser(p, b.fields, b.email, b.password, b.role, b.code)
  \/ \E p \in SeqProcs : RegisterCheckRequest(p)
  \/ \E p \in SeqProcs : RegisterSaveRequest(p)
  \/ \E p \in SeqProcs : RegisterSaveNotification(p)
  \/ \E p \in SeqProcs, t \in SignedTokens \cup {NoToken, BadToken}, rid \in RequestIdIn :
       ApproveAuth(p, t, rid)
  \/ \E p \in SeqProcs : ApproveFindRequest(p)
  \/ \E p \in SeqProcs : ApproveCheckUser(p)
  \/ \E p \in SeqProcs : generateEmployeeId(p)
  \/ \E p \in SeqProcs : ApproveSaveUser(p)
  \/ \E p \in SeqProcs : ApproveSaveRequest(p)
  \/ \E p \in SeqProcs, t \in SignedTokens \cup {NoToken, BadToken}, rid \in RequestIdIn :
       RejectAuth(p, t, rid, "")
  \/ \E p \in SeqProcs : RejectFindRequest(p)
  \/ \E p \in SeqProcs : RejectSaveRequest(p)
  \/ \E p \in SeqProcs, b \in AdminLogins : LoginFindUser(p, b.email, b.password)
  \/ \E p \in SeqProcs : LoginFindPending(p)
  \/ \E p \in SeqProcs : LoginFindRejected(p)
  \/ \E p \in SeqProcs, t \in SignedTokens \cup {NoToken, BadToken} :
       ListAuth(p, t, "", 0, 0)
  \/ \E p \in SeqProcs : ListFind(p)
  \/ \E p \in SeqProcs : ListCount(p)
  \/ \E p \in SeqProcs, t \in SignedTokens \cup {NoToken, BadToken} : StatsAuth(p, t)
  \/ \E p \in SeqProcs : StatsAggregate(p)
  \/ \E p \in SeqProcs : Release(p)
  \/ \E u \in 1..MaxUsers : Deactivate(u)

SpecAdmin == Init /\ [][NextAdmin]_vars

\* The login gate over the workflow, one request at a time: valid
\* registrations, decisions by token holders, logins with every body,
\* deactivation of users.
NextGate ==
  \/ \E p \in SeqProcs, b \in ValidBodies({"", "admin"}) :
       RegisterCheckUser(p, b.fields, b.email, b.password, b.role, b.code)
  \/ \E p \in SeqProcs : RegisterCheckRequest(p)
  \/ \E p \in SeqProcs : RegisterSaveRequest(p)
  \/ \E p \in SeqProcs : RegisterSaveNotification(p)
  \/ \E p \in SeqProcs, t \in SignedTokens, rid \in RequestIdIn : ApproveAuth(p, t, rid)
  \/ \E p \in SeqProcs : ApproveFindRequest(p)
  \/ \E p \in SeqProcs : ApproveCheckUser(p)
  \/ \E p \in SeqProcs : generateEmployeeId(p)
  \/ \E p \in SeqProcs : ApproveSaveUser(p)
  \/ \E p \in SeqProcs : ApproveSaveRequest(p)
  \/ \E p \in SeqProcs, t \in SignedTokens, rid \in RequestIdIn : RejectAuth(p, t, rid, "")
  \/ \E p \in SeqProcs : RejectFindRequest(p)
  \/ \E p \in SeqProcs : RejectSaveRequest(p)
  \/ \E p \in SeqProcs, b \in LoginBodies : LoginFindUser(p, b.email, b.password)
  \/ \E p \in SeqProcs : LoginFindPending(p)
  \/ \E p \in SeqProcs : LoginFindRejected(p)
  \/ \E p \in SeqProcs : Release(p)
  \/ \E u \in 1..MaxUsers : Deactivate(u)

SpecGate == Init /\ [][NextGate]_vars

(* ======================= properties of the workflow ==================== *)
EmailsInStore == {requests[r].email : r \in ReqIds} \cup {users[u].email : u \in UserIds}
Finished(p, op) == procs[p].pc = "done" /\ procs[p].op = op

\* C1: at most one RegistrationRequest per email has status pending or
\* approved, in every reachable state, whatever the interleaving.
C1_OneActiveRequestPerEmail ==
  \A e \in EmailsInStore : Cardinality(RequestsByEmail(e, ActiveStatuses)) <= 1

\* Two register handlers for one email overlapped past both checks and the
\* second insert was refused by the store.
C1_Witness ==
  \E p \in Procs :
    /\ Finished(p, "register")
    /\ procs[p].resp.msg = "Email already exists in registration requests"
    /\ RequestsByEmail(procs[p].email, {"pending"}) # {}

\* C3: a User with email e exists if and only if some RegistrationRequest
\* with email e has status approved.
C3_UserIffApproved ==
  \A e \in EmailsInStore :
    (UsersByEmail(e) # {}) <=> (RequestsByEmail(e, {"approved"}) # {})

\* C4: a request whose status is not pending is never changed again, and no
\* request is ever deleted.
C4_DecidedIsFinal ==
  [][/\ Len(requests') >= Len(requests)
     /\ \A r \in ReqIds :
          requests[r].status # "pending" => requests'[r] = requests[r]]_vars

\* C5: an approve handler that passed the pending check and reaches its
\* user.save() after another approve of the same request stored the User
\* answers 400 and stores no second User.
C5_LoserGetsConflict ==
  [][\A p \in Procs :
       (ApproveSaveUser(p) /\ UsersByEmail(requests[procs[p].rid].email) # {})
       => (procs'[p].resp.status = 400 /\ users' = users)]_vars

\* C6: no two User records have the same employee identifier.
C6_EmployeeIdUnique ==
  \A u1, u2 \in UserIds :
    u1 # u2 => users[u1].employeeId # users[u2].employeeId

Interrupted(r) ==
  /\ r \in ReqIds
  /\ requests[r].status = "pending"
  /\ UsersByEmail(requests[r].email) # {}
  /\ \A q \in Procs : ~(procs[q].pc = "apr_saveRequest" /\ procs[q].rid = r)

\* C8: a later approve of a request whose approval was interrupted between
\* the two writes goes on to completion instead of being refused.
C8_InterruptedIsRetryable ==
  [][\A p \in Procs :
       (ApproveCheckUser(p) /\ Interrupted(procs[p].rid))
       => procs'[p].pc = "apr_count"]_vars


(* ======================= properties of the login gate ================== *)
\* The step in which handler p answers.
Answers(p, op) ==
  procs[p].pc # "done" /\ procs'[p].pc = "done" /\ procs'[p].op = op

\* C2: whenever login issues a session token, the token names an active
\* User whose email is the one submitted; an email without such a User
\* (its request pending, rejected, or absent) obtains no token.
C2_TokenOnlyForActiveUser ==
  [][\A p \in Procs :
       (Answers(p, "login") /\ procs'[p].resp.token # NoToken)
       => /\ procs'[p].resp.token.id \in UserIds
          /\ users[procs'[p].resp.token.id].isActive
          /\ RegexMatchI(procs'[p].email, users[procs'[p].resp.token.id].email)
          /\ procs'[p].resp.token \in tokens']_vars

\* A registrant approved through the workflow logged in, while another
\* address has only a pending or rejected request.
C2_Witness ==
  \E p \in Procs :
    /\ Finished(p, "login")
    /\ procs[p].resp.status = 200
    /\ procs[p].email # SeedEmail
    /\ \E r \in ReqIds : requests[r].status \in {"pending", "rejected"}
                         /\ UsersByEmail(requests[r].email) = {}

\* C9: login with a wrong password for an existing active User answers
\* exactly what login answers for an email with no User and no request.
C9_WrongPasswordLooksLikeNoAccount ==
  [][\A p \in Procs :
       (Answers(p, "login") /\ procs[p].pc = "idle"
          /\ ActiveUsersMatching(procs'[p].email) # {}
          /\ procs'[p].resp.status = 401)
       => procs'[p].resp = NoAccount]_vars

\* C10: a login that found no active User answers 401 without token: the
\* awaiting-approval message if a pending request exists for the email,
\* else the rejected message if a rejected one exists, else the generic one.
C10_ThreeWayAnswer ==
  [][\A p \in Procs :
       (Answers(p, "login") /\ procs[p].pc \in {"login_findPending", "login_findRejected"})
       => procs'[p].resp =
            IF RequestsMatching(procs[p].email, "pending") # {} THEN AwaitingApproval
            ELSE IF RequestsMatching(procs[p].email, "rejected") # {} THEN RequestRejected
            ELSE NoAccount]_vars

\* A rejected registrant, logging in with another spelling of the address,
\* was told that the request was rejected.
C10_Witness ==
  \E p \in Procs :
    /\ Finished(p, "login")
    /\ procs[p].resp = RequestRejected
    /\ procs[p].email = "A@X"

(* ------------------- session and administration ------------------------ *)
\* C11: login with the correct password of an active User answers 200 with a
\* token that the `auth` middleware resolves to that very User, and with a
\* profile of that User that has no password field.
C11_TokenResolvesToUser ==
  [][\A p \in Procs :
       (/\ Answers(p, "login")
        /\ procs[p].pc = "idle"
        /\ \E u \in ActiveUsersMatching(procs'[p].email) :
             Compare(procs'[p].password, users[u].password))
       => /\ procs'[p].resp.status = 200
          /\ AuthUser(procs'[p].resp.token) \in ActiveUsersMatching(procs'[p].email)
          /\ Compare(procs'[p].password,
                     users[AuthUser(procs'[p].resp.token)].password)
          /\ procs'[p].resp.user.id = AuthUser(procs'[p].resp.token)
          /\ procs'[p].resp.user.email = users[AuthUser(procs'[p].resp.token)].email
          /\ "password" \notin DOMAIN procs'[p].resp.user]_vars

\* A user created by an approval logged in under another spelling of the
\* address and holds a token of their own.
C11_Witness ==
  \E p \in Procs :
    /\ Finished(p, "login")
    /\ procs[p].resp.status = 200
    /\ procs[p].email = "A@X"
    /\ procs[p].resp.user.id > 1
    /\ procs[p].resp.token \in tokens

\* C12: GET /profile with a token that a successful login issued answers
\* 200 with the record of the User the token was issued to, without the
\* password; it answers 404 only if that User does not exist.
C12_ProfileOfTokenHolder ==
  [][\A p \in Procs :
       (Answers(p, "profile") /\ procs'[p].token \in tokens)
       => IF procs'[p].token.id \in UserIds
            THEN /\ procs'[p].resp.status = 200
                 /\ procs'[p].resp.user.email = users[procs'[p].token.id].email
                 /\ "password" \notin DOMAIN procs'[p].resp.user
            ELSE procs'[p].resp.status = 404]_vars

\* C13: an approve or reject whose target is already approved or rejected
\* answers 400 "already processed", one whose identifier matches no request
\* answers 404; neither changes any request or User.
C13_DecidedOrUnknownTarget ==
  [][\A p \in Procs :
       (/\ procs[p].op \in {"approve", "reject"}
        /\ InFlight(p)
        /\ procs'[p] # procs[p]
        /\ procs[p].rid \in ReqIds => requests[procs[p].rid].status \in {"approved", "rejected"})
       => /\ procs'[p].pc = "done"
          /\ procs'[p].resp =
               IF procs[p].rid \in ReqIds
                 THEN Resp(400, "Registration request has already been processed")
                 ELSE Resp(404, "Registration request not found")
          /\ users' = users
          /\ requests' = requests]_vars

\* An administrator tried to approve a request that had been rejected.
C13_Witness ==
  \E p \in Procs :
    /\ Finished(p, "approve")
    /\ procs[p].resp = Resp(400, "Registration request has already been processed")
    /\ requests[procs[p].rid].status = "rejected"

\* The caller's token was signed by a login, has not expired, and names an
\* existing active User with role admin or hr.
AdminCaller(t) ==
  /\ t \in tokens
  /\ t.exp > now
  /\ t.id \in UserIds
  /\ users[t.id].isActive
  /\ users[t.id].role \in {"admin", "hr"}

AdminOps == {"approve", "reject", "list", "stats"}

ValidSubmission(s) ==
  /\ s.fields /\ s.email # "" /\ s.password # "" /\ s.code # ""
  /\ PasswordLength(s.password) >= 6
  /\ s.code = "COMPANY"

\* No User and no pending or approved request has the address.
EmailIsFree(e) ==
  /\ \A u \in UserIds : users[u].email # e
  /\ \A r \in ReqIds : requests[r].email = e => requests[r].status = "rejected"

Range(f) == {f[i] : i \in DOMAIN f}

\* C15: a valid submission for a free address goes through every step:
\* exactly one request is appended, pending, with the hashed password; one
\* notification is stored for it; the answer is 201 with the request id and
\* status pending and nothing else; and a first page of the admin listing
\* holds every selected request that has fewer than `limit` newer ones,
\* the new request among them.
C15_ValidSubmissionCreatesPending ==
  [][\A p \in Procs :
       /\ (procs'[p].op = "register" /\ procs'[p] # procs[p]
           /\ ValidSubmission(procs'[p]) /\ EmailIsFree(procs'[p].email))
          => CASE procs[p].pc = "idle" ->
                    /\ procs'[p].pc = "reg_findRequest"
                    /\ requests' = requests /\ notifications' = notifications
               [] procs[p].pc = "reg_findRequest" ->
                    /\ procs'[p].pc = "reg_saveRequest"
                    /\ requests' = requests /\ notifications' = notifications
               [] procs[p].pc = "reg_saveRequest" ->
                    /\ procs'[p].pc = "reg_saveNotification"
                    /\ procs'[p].rid = Len(requests) + 1
                    /\ requests' = Append(requests,
                         [email |-> procs[p].email, password |-> Hash(procs[p].password),
                          profile |-> ProfileOf(procs[p].email),
                          role |-> IF procs[p].role = "" THEN "employee" ELSE procs[p].role,
                          status |-> "pending", reviewedBy |-> 0, reviewedAt |-> 0,
                          rejectionReason |-> ""])
                    /\ notifications' = notifications
               [] OTHER -> TRUE
       /\ (procs[p].op = "register" /\ procs[p].pc = "reg_saveNotification"
           /\ procs'[p] # procs[p])
          => /\ requests' = requests
             /\ notifications[procs[p].rid] = 0
             /\ notifications' = [notifications EXCEPT ![procs[p].rid] = 1]
             /\ requests[procs[p].rid].status = "pending"
             /\ procs'[p].pc = "done"
             /\ procs'[p].resp =
                  [NoResp EXCEPT !.status = 201,
                                 !.msg = "Registration request submitted successfully",
                                 !.rid = procs[p].rid, !.requestStatus = "pending"]
       /\ (Answers(p, "list") /\ procs'[p].resp.status = 200 /\ procs'[p].query.page = 1)
          => \A r \in ReqIds :
               (/\ procs'[p].query.status \in {"", requests[r].status}
                /\ Cardinality({n \in ReqIds : n > r
                      /\ procs'[p].query.status \in {"", requests[n].status}})
                     < procs'[p].query.limit)
               => r \in Range(procs'[p].resp.list)]_vars

\* The administrator listed the pending requests right after a second
\* registrant had submitted, and both submissions are on the page.
C15_Witness ==
  \E p \in Procs :
    /\ Finished(p, "list")
    /\ procs[p].resp.status = 200
    /\ procs[p].query.status = "pending"
    /\ Len(procs[p].resp.list) = 2
    /\ \A i \in 1..2 : /\ requests[procs[p].resp.list[i]].status = "pending"
                       /\ notifications[procs[p].resp.list[i]] = 1

\* C16: a submission for an address that has a User, or a pending or
\* approved request, is answered 400 by the lookup that finds the record,
\* and no step of it stores a request or a notification.
C16_TakenEmailRefused ==
  [][\A p \in Procs :
       (/\ procs'[p].op = "register" /\ procs'[p] # procs[p]
        /\ procs[p].pc \in {"idle", "reg_findRequest"}
        /\ ValidSubmission(procs'[p])
        /\ ~EmailIsFree(procs'[p].email))
       => /\ requests' = requests
          /\ notifications' = notifications
          /\ procs'[p].pc \in {"done", "reg_findRequest"}
          /\ procs'[p].pc = "done" => procs'[p].resp.status = 400
          /\ (procs[p].pc = "reg_findRequest"
                \/ \E u \in UserIds : users[u].email = procs'[p].email)
             => procs'[p].pc = "done"]_vars

\* A second submission for an address whose first request is still pending
\* was refused, and the address has one request and one notification.
C16_Witness ==
  \E p \in Procs :
    /\ Finished(p, "register")
    /\ procs[p].resp =
         Resp(400, "A registration request with this email is already pending admin approval")
    /\ Cardinality({r \in ReqIds : requests[r].email = procs[p].email}) = 1
    /\ \A r \in ReqIds : requests[r].email = procs[p].email => notifications[r] = 1

\* C17: a submission with a required field missing, with a password of
\* fewer than six characters, or with an admin code other than the
\* configured one is answered 400 at once and stores nothing.
C17_InvalidSubmissionRefused ==
  [][\A p \in Procs :
       (/\ procs[p].pc = "idle"
        /\ procs'[p].op = "register"
        /\ ~ValidSubmission(procs'[p]))
       => /\ procs'[p].pc = "done"
          /\ procs'[p].resp.status = 400
          /\ procs'[p].resp.rid = 0
          /\ requests' = requests
          /\ notifications' = notifications
          /\ users' = users]_vars

\* A submission with a three-character password for an address that is
\* otherwise free was refused.
C17_Witness ==
  \E p \in Procs :
    /\ Finished(p, "register")
    /\ procs[p].resp.status = 400
    /\ procs[p].fields /\ procs[p].code = "COMPANY"
    /\ PasswordLength(procs[p].password) = 3
    /\ EmailIsFree(procs[p].email)

\* C18: once a request for an address has been rejected, a valid
\* submission for that address (no User, no pending or approved request)
\* passes both lookups and the store accepts a new pending request next to
\* the rejected one, which stays as it is.
C18_ResubmissionAfterRejection ==
  [][\A p \in Procs :
       (/\ procs'[p].op = "register" /\ procs'[p] # procs[p]
        /\ ValidSubmission(procs'[p])
        /\ EmailIsFree(procs'[p].email)
        /\ \E r \in ReqIds : /\ requests[r].email = procs'[p].email
                             /\ requests[r].status = "rejected")
       => /\ procs'[p].pc # "done"
          /\ procs[p].pc = "reg_saveRequest"
             => /\ Len(requests') = Len(requests) + 1
                /\ requests'[Len(requests')].email = procs[p].email
                /\ requests'[Len(requests')].status = "pending"
                /\ \A r \in ReqIds : requests'[r] = requests[r]]_vars

\* A registrant whose first request was rejected submitted again and was
\* answered 201; the rejected record is still there.
C18_Witness ==
  \E p \in Procs :
    /\ Finished(p, "register")
    /\ procs[p].resp.status = 201
    /\ requests[procs[p].resp.rid].status = "pending"
    /\ \E r \in ReqIds : /\ r < procs[p].resp.rid
                         /\ requests[r].email = procs[p].email
                         /\ requests[r].status = "rejected"

\* C19: when a register handler that passed both lookups reaches its save
\* and another request for the address has meanwhile become pending or
\* approved, the save is refused, the caller is answered 400, and neither a
\* request nor a notification is stored for it.
C19_LosingSubmissionGetsConflict ==
  [][\A p \in Procs :
       (/\ RegisterSaveRequest(p)
        /\ \E r \in ReqIds : /\ requests[r].email = procs[p].email
                             /\ requests[r].status \in {"pending", "approved"})
       => /\ procs'[p].pc = "done"
          /\ procs'[p].resp.status = 400
          /\ procs'[p].resp.rid = 0
          /\ requests' = requests
          /\ notifications' = notifications]_vars

\* Two submissions for one address overlapped: one was answered 201, the
\* other 400, and the address has one request with one notification.
C19_Witness ==
  \E p, q \in Procs :
    /\ Finished(p, "register")
    /\ procs[p].resp.status = 400
    /\ procs[p].resp.msg = "Email already exists in registration requests"
    /\ Finished(q, "register")
    /\ procs[q].email = procs[p].email
    /\ procs[q].resp.status = 201
    /\ Cardinality({r \in ReqIds : requests[r].email = procs[p].email}) = 1
    /\ notifications[procs[q].resp.rid] = 1

\* C20: the reject of a request that its lookup found pending stores status rejected, the User
\* of the caller's token as reviewer, the time of the decision, and the
\* reason of the body or "No reason provided"; it creates no User and
\* leaves the address with no active User and no pending request; and a
\* login for an address in that position is answered "rejected".
C20_RejectThenLogin ==
  [][\A p \in Procs :
       /\ (procs[p].op = "reject" /\ procs[p].pc = "rej_saveRequest"
           /\ procs'[p] # procs[p])
          => /\ requests' =
                  [requests EXCEPT ![procs[p].rid] =
                     [requests[procs[p].rid] EXCEPT
                        !.status = "rejected",
                        !.reviewedBy = procs[p].token.id,
                        !.reviewedAt = now,
                        !.rejectionReason =
                           IF procs[p].reason = "" THEN "No reason provided"
                                                   ELSE procs[p].reason]]
             /\ now > 0
             /\ procs[p].token.id \in UserIds
             /\ users' = users
             /\ procs'[p].pc = "done" /\ procs'[p].resp.status = 200
             /\ \A u \in UserIds :
                  users[u].isActive
                  => Lower(users[u].email) # Lower(requests[procs[p].rid].email)
             /\ \A r \in ReqIds :
                  Lower(requests[r].email) = Lower(requests[procs[p].rid].email)
                  => requests'[r].status # "pending"
       /\ (/\ Answers(p, "login")
           /\ procs'[p].email # "" /\ procs'[p].password # ""
           /\ \E r \in ReqIds : /\ Lower(requests[r].email) = Lower(procs'[p].email)
                                /\ requests[r].status = "rejected"
           /\ \A r \in ReqIds : Lower(requests[r].email) = Lower(procs'[p].email)
                                => requests[r].status # "pending"
           /\ \A u \in UserIds : users[u].isActive
                                => Lower(users[u].email) # Lower(procs'[p].email))
          => procs'[p].resp = Resp(401, "Your registration request was rejected")]_vars

\* A registrant whose request was rejected with a reason of the reviewer's
\* logged in and was told so.
C20_Witness ==
  \E p \in Procs :
    /\ Finished(p, "login")
    /\ procs[p].resp.msg = "Your registration request was rejected"
    /\ \E r \in ReqIds : /\ requests[r].email = procs[p].email
                         /\ requests[r].status = "rejected"
                         /\ requests[r].rejectionReason = "incomplete"
                         /\ requests[r].reviewedBy \in UserIds
                         /\ requests[r].reviewedAt > 0

(* ------------------------- scenario and reset --------------------------- *)
\* Users that an approval created: their request names its reviewer.
CreatedByApproval(us, reqs) ==
  {u \in DOMAIN us :
     \E r \in DOMAIN reqs : /\ reqs[r].email = us[u].email
                            /\ reqs[r].status = "approved"
                            /\ reqs[r].reviewedBy # 0}

\* C21: after register and approve, login with the submitted password
\* answers 200 with a token and login with another password answers the
\* generic 401; and the first User an approval ever creates gets the
\* employee identifier EMP0001.
C21_RegisterApproveLogin ==
  [][\A p \in Procs :
       /\ (/\ Answers(p, "login") /\ procs[p].pc = "idle"
           /\ procs'[p].password # ""
           /\ \E u \in CreatedByApproval(users, requests) :
                users[u].isActive /\ users[u].email = procs'[p].email)
          => \E r \in ReqIds :
               /\ requests[r].email = procs'[p].email
               /\ requests[r].status = "approved"
               /\ IF requests[r].password = Hash(procs'[p].password)
                    THEN /\ procs'[p].resp.status = 200
                         /\ procs'[p].resp.token \in tokens'
                    ELSE procs'[p].resp = Resp(401, "Invalid email or password")
       /\ (/\ procs[p].pc = "apr_saveUser"
           /\ Len(users') = Len(users) + 1
           /\ \A u \in UserIds : u \notin CreatedByApproval(users, requests))
          => users'[Len(users')].employeeId =
               [prefix |-> "EMP", digits |-> <<0, 0, 0, 1>>]]_vars

\* C22: once forgot-password has answered an error after generating a
\* reset token, reset-password accepts that token for no User: the token
\* and its expiry were cleared before the answer.
C22_FailedDeliveryClearsToken ==
  \A p \in Procs :
    (/\ Finished(p, "forgot")
     /\ procs[p].resp.status = 500
     /\ procs[p].reset # NoResetToken)
    => UsersByResetToken(procs[p].reset) = {}

\* C23: a reset token is consumed by the reset-password request that
\* succeeds with it: the save leaves no User holding the token, no token is
\* generated twice, and no two requests carrying one token are both
\* answered 200.
C23_TokenSingleUse ==
  [][/\ \A p \in Procs :
          (procs[p].pc = "rp_save" /\ procs'[p] # procs[p]
             /\ procs'[p].resp.status = 200)
          => \A u \in UserIds : users'[u].resetPasswordToken # procs[p].reset
     /\ \A p \in Procs :
          (procs[p].pc = "idle" /\ procs'[p].pc = "fp_saveToken")
          => procs'[p].reset > issued
     /\ \A p, q \in Procs :
          (/\ p # q
           /\ procs'[p].op = "reset" /\ procs'[p].pc = "done"
           /\ procs'[p].resp.status = 200
           /\ procs'[q].op = "reset" /\ procs'[q].pc = "done"
           /\ procs'[q].resp.status = 200)
          => procs'[p].reset # procs'[q].reset]_vars

\* C24: reset-password with a token that no active User holds, or whose
\* expiry is not after the present hour, answers 400 and leaves every
\* User's password hash, reset token and expiry as they are.
C24_UnknownOrExpiredTokenRefused ==
  [][\A p \in Procs :
       (/\ procs[p].pc = "idle"
        /\ procs'[p].op = "reset"
        /\ \A u \in UserIds :
             \/ users[u].resetPasswordToken # procs'[p].reset
             \/ ~users[u].isActive
             \/ users[u].resetPasswordExpiry <= now)
       => /\ procs'[p].pc = "done"
          /\ procs'[p].resp.status = 400
          /\ users' = users]_vars

\* A confirmation arrived with the token a User still holds, an hour or
\* more after it was issued, and was refused.
C24_Witness ==
  \E p \in Procs :
    /\ Finished(p, "reset")
    /\ procs[p].resp = Resp(400, "Invalid or expired reset token")
    /\ \E u \in UserIds : /\ users[u].resetPasswordToken = procs[p].reset
                          /\ users[u].isActive
                          /\ users[u].resetPasswordExpiry <= now

\* C25: forgot-password for an email that has no active User answers the
\* same generic acknowledgement (200) as for an email that has one, and
\* changes no User record.
C25_UnknownEmailGetsGenericAnswer ==
  [][\A p \in Procs :
       (/\ procs[p].pc = "idle"
        /\ procs'[p].op = "forgot"
        /\ procs'[p].email # ""
        /\ \A u \in UserIds :
             ~(Lower(users[u].email) = Lower(procs'[p].email) /\ users[u].isActive))
       => /\ procs'[p].pc = "done"
          /\ procs'[p].resp =
               Resp(200, "If this email exists in our system, you will receive a password reset link shortly")
          /\ users' = users]_vars

\* C26 as stated: a token the bearer-token check `auth` accepts stays
\* accepted until it expires, whatever happens to the store in between,
\* deactivation of its User included.
C26_AcceptedUntilExpiry ==
  [][\A t \in tokens :
       (AuthUser(t) # 0 /\ t.exp > now') => AuthUser(t)' # 0]_vars

\* C26, amended: verifyToken accepts a signed token until it expires,
\* whatever the store holds; `auth` accepts it until it expires for as
\* long as the User it names is active, and refuses it from the step on
\* that deactivates that User; a request that carries a token `auth`
\* accepts is not answered with one of the refusals of `auth`.
C26_AcceptedWhileUserActive ==
  [][\A t \in tokens :
       /\ (JwtVerify(t) /\ t.exp > now') => JwtVerify(t)'
       /\ (AuthUser(t) # 0 /\ t.exp > now')
          => /\ AuthUser(t)' = (IF users'[t.id].isActive THEN t.id ELSE 0)
             /\ \A p \in Procs :
                  (/\ procs[p].pc = "idle"
                   /\ procs'[p].op \in AdminOps
                   /\ procs'[p].token = t)
                  => procs'[p].resp.msg \notin
                       {"No token provided", "Invalid token",
                        "Invalid token or inactive user"}]_vars

\* The holder of a token a login signed was deactivated, and the listing
\* then refused that token.
C26_Witness ==
  \E p \in Procs :
    /\ Finished(p, "list")
    /\ procs[p].token \in tokens
    /\ procs[p].token.exp > now
    /\ ~users[procs[p].token.id].isActive
    /\ procs[p].resp = Resp(403, "Invalid token or inactive user")


(* ========================= failures and bootstrap ====================== *)
\* C27: when a handler answers with the error of a failed store call, the
\* store holds nothing that handler wrote: no RegistrationRequest a failed
\* register saved, no User a failed approve saved.
C27_FailedCallLeavesNoEffect ==
  [][\A p \in Procs :
       (/\ InFlight(p)
        /\ procs'[p].pc = "done"
        /\ procs'[p].resp = Resp(500, "store error"))
       => /\ procs[p].op = "register" => procs[p].rid \notin ReqIds
          /\ procs[p].op = "approve"
             => ~(/\ procs[p].pc = "apr_saveRequest"
                  /\ \E u \in UserIds :
                       /\ users[u].employeeId = procs[p].empId
                       /\ users[u].email = requests[procs[p].rid].email)]_vars

\* C28: on a fresh installation a person who registers with role admin can
\* go on to log in through register, approve, reject and login alone.  A
\* User is created by an approval only, and an approval is let in on a
\* bearer token only: so while the store has no User and the registrant's
\* request waits, some Authorization header must pass `auth` and
\* `adminAuth`.
C28_FirstAdminCanBeApproved ==
  (/\ users = <<>>
   /\ \E r \in ReqIds : requests[r].role = "admin" /\ requests[r].status = "pending")
  => \E t \in SignedTokens \cup {NoToken, BadToken} : AuthStatus(t) = 0


(* ========================= employee identifiers ======================== *)
\* The number a four-digit identifier shows.
EmployeeNumber(id) ==
  id.digits[1] * 1000 + id.digits[2] * 100 + id.digits[3] * 10 + id.digits[4]

\* C29: with approvals one at a time, the User an approval stores carries
\* the prefix EMP and the four-digit number of User records before it plus
\* one, a number greater than that of every User stored earlier, also when
\* some of those have been deactivated.
C29_EmployeeIdIncreases ==
  [][\A p \in Procs :
       (procs[p].pc = "apr_saveUser" /\ Len(users') = Len(users) + 1)
       => LET id == users'[Len(users')].employeeId
          IN /\ id.prefix = "EMP"
             /\ Len(id.digits) = 4
             /\ EmployeeNumber(id) = Len(users) + 1
             /\ \A u \in UserIds :
                  EmployeeNumber(users[u].employeeId) < EmployeeNumber(id)]_vars

\* Three Users, one of them deactivated, the third stored by an approval
\* that has answered.
C29_Witness ==
  /\ Len(users) = 3
  /\ \E u \in UserIds : ~users[u].isActive
  /\ EmployeeNumber(users[3].employeeId) = 3
  /\ \E p \in Procs :
       /\ Finished(p, "approve")
       /\ procs[p].resp.status = 200
       /\ requests[procs[p].rid].email = users[3].email


(* ============================ password reset =========================== *)
\* The passwords of the accounts and of the reset bodies.
KnownPasswords == {"secret1", "secret2", SeedPassword}

\* C30: the reset that answers 200 for new password pw leaves that User
\* with a hash that pw matches and no other known password does, and
\* leaves every other User's hash alone; and login for an active User
\* answers 200 exactly when the submitted password matches the stored
\* hash.  So after the reset login succeeds with pw and fails with the
\* password before it.
C30_ResetReplacesPassword ==
  [][\A p \in Procs :
       /\ (/\ procs[p].pc = "rp_save"
           /\ procs'[p].pc = "done"
           /\ procs'[p].resp.status = 200)
          => /\ \A q \in KnownPasswords :
                  Compare(q, users'[procs[p].uid].password) <=> q = procs[p].password
             /\ Len(users') = Len(users)
             /\ \A v \in UserIds \ {procs[p].uid} :
                  users'[v].password = users[v].password
       /\ (/\ procs[p].pc = "idle"
           /\ procs'[p].op = "login"
           /\ procs'[p].password # "")
          => \A u \in UserIds :
               (users[u].isActive /\ Lower(users[u].email) = Lower(procs'[p].email))
               => /\ procs'[p].pc = "done"
                  /\ IF Compare(procs'[p].password, users[u].password)
                       THEN procs'[p].resp.status = 200
                       ELSE procs'[p].resp.status = 401]_vars

\* The staff member, whose password was secret1, has logged in with
\* secret2; the administrator's hash is the one it was.
C30_Witness ==
  \E p \in Procs :
    /\ Finished(p, "login")
    /\ procs[p].email = "a@x"
    /\ procs[p].password = "secret2"
    /\ procs[p].resp.status = 200
    /\ users[1].password = Hash(SeedPassword)

\* C31: a User holds one reset token at a time.  The save of a later
\* forgot-password puts its own token and expiry in the place of the ones
\* the User held, after which no User holds the earlier token; and
\* reset-password with a token no User holds answers 400 and changes no
\* User, whether or not the hour of that token has passed.
C31_LaterTokenReplacesEarlier ==
  [][\A p \in Procs :
       /\ (procs[p].pc = "fp_saveToken" /\ procs'[p].pc = "fp_verify")
          => LET u == procs[p].uid
                 old == users[u].resetPasswordToken
             IN /\ users'[u].resetPasswordToken = procs[p].reset
                /\ users'[u].resetPasswordExpiry = procs[p].expiry
                /\ old # procs[p].reset
                /\ \A v \in UserIds :
                     /\ users'[v].resetPasswordToken # old \/ old = NoResetToken
                     /\ v # u => users'[v] = users[v]
       /\ (/\ procs[p].pc = "idle"
           /\ procs'[p].op = "reset"
           /\ \A v \in UserIds : users[v].resetPasswordToken # procs'[p].reset)
          => /\ procs'[p].pc = "done"
             /\ procs'[p].resp.status = 400
             /\ users' = users]_vars

\* Within the first hour the employee holds the second token issued, the
\* first token was refused, and nobody's password has been reset.
C31_Witness ==
  /\ now = 1
  /\ users[2].resetPasswordToken = 2
  /\ users[2].resetPasswordExpiry > now
  /\ users[1].resetPasswordToken = NoResetToken
  /\ users[1].password = Hash(SeedPassword)
  /\ users[2].password = Hash("secret1")
  /\ \E p \in Procs :
       /\ Finished(p, "reset")
       /\ procs[p].reset = 1
       /\ procs[p].resp = Resp(400, "Invalid or expired reset token")


(* ============================ effect of approval ======================= *)
\* C32: the request register stores has the role of the body, employee
\* when the body has none; the User an approval stores is active and has
\* the email, password hash, profile and role of the request, and the
\* step stores nothing else; the step that marks the request approved
\* changes that request only and no User.
C32_UserCopiesRequest ==
  [][\A p \in Procs :
       /\ (procs[p].pc = "reg_saveRequest" /\ Len(requests') = Len(requests) + 1)
          => requests'[Len(requests')].role =
               (IF procs[p].role = "" THEN "employee" ELSE procs[p].role)
       /\ (procs[p].pc = "apr_saveUser" /\ procs'[p].pc = "apr_saveRequest")
          => LET r == requests[procs[p].rid]
                 n == Len(users) + 1
             IN /\ Len(users') = n
                /\ users'[n].isActive
                /\ users'[n].email = r.email
                /\ users'[n].password = r.password
                /\ users'[n].profile = r.profile
                /\ users'[n].role = r.role
                /\ \A u \in UserIds : users'[u] = users[u]
                /\ requests' = requests
       /\ (procs[p].pc = "apr_saveRequest" /\ procs'[p].pc = "done"
           /\ procs'[p].resp.status = 200)
          => /\ users' = users
             /\ Len(requests') = Len(requests)
             /\ \A r \in ReqIds \ {procs[p].rid} : requests'[r] = requests[r]
             /\ requests'[procs[p].rid].status = "approved"]_vars

\* An approval has answered for a request that asked for the role admin,
\* next to a User whose request named no role.
C32_Witness ==
  /\ \E p \in Procs :
       /\ Finished(p, "approve")
       /\ procs[p].resp.status = 200
       /\ requests[procs[p].rid].role = "admin"
       /\ \E u \in UserIds : /\ u > 1
                             /\ users[u].email = requests[procs[p].rid].email
                             /\ users[u].role = "admin"
  /\ \E u \in UserIds : users[u].role = "employee"


(* ====================== what the answers give away ===================== *)
\* C33: a register request whose admin code is not the configured one is
\* answered in its first step with a response the body alone determines,
\* whatever Users and requests the store holds, and stores nothing.
C33_WrongCodeAnswerIgnoresStore ==
  [][\A p \in Procs :
       (/\ procs[p].pc = "idle"
        /\ procs'[p].op = "register"
        /\ procs'[p].code # "COMPANY")
       => /\ procs'[p].pc = "done"
          /\ procs'[p].resp =
               (IF \/ ~procs'[p].fields \/ procs'[p].email = ""
                   \/ procs'[p].password = "" \/ procs'[p].code = ""
                  THEN Resp(400, "All fields are required")
                ELSE IF PasswordLength(procs'[p].password) < 6
                  THEN Resp(400, "Password must be at least 6 characters long")
                ELSE Resp(400, "Invalid admin verification code"))
          /\ users' = users /\ requests' = requests
          /\ notifications' = notifications]_vars

\* A body with a wrong code for the address of an approved User got the
\* answer about the code.
C33_Witness ==
  \E p \in Procs :
    /\ Finished(p, "register")
    /\ procs[p].code = "WRONG"
    /\ procs[p].resp = Resp(400, "Invalid admin verification code")
    /\ \E u \in UserIds : users[u].email = procs[p].email
    /\ \E r \in ReqIds : requests[r].email = procs[p].email /\ requests[r].status = "approved"

\* Some request with the address, in any letter case, has the status.
HasRequest(e, st) ==
  \E r \in ReqIds : Lower(requests[r].email) = Lower(e) /\ requests[r].status = st

\* C34: a login for an address that has no active User and has a pending
\* request next to a rejected one is answered "awaiting approval" when it
\* answers, never "rejected".
C34_PendingBeforeRejected ==
  [][\A p \in Procs :
       (/\ Answers(p, "login")
        /\ procs'[p].email # "" /\ procs'[p].password # ""
        /\ \A u \in UserIds :
             ~(users[u].isActive /\ Lower(users[u].email) = Lower(procs'[p].email))
        /\ HasRequest(procs'[p].email, "pending")
        /\ HasRequest(procs'[p].email, "rejected"))
       => procs'[p].resp = AwaitingApproval]_vars

\* A registrant whose first request was rejected and whose second one
\* waits has tried to log in.
C34_Witness ==
  \E p \in Procs :
    /\ Finished(p, "login")
    /\ procs[p].resp = AwaitingApproval
    /\ HasRequest(procs[p].email, "pending")
    /\ HasRequest(procs[p].email, "rejected")
    /\ \A u \in UserIds : Lower(users[u].email) # Lower(procs[p].email)


(* ========================= deactivated accounts ======================== *)
\* Some User with exactly this address is deactivated.
InactiveUserHas(e) == \E u \in UserIds : users[u].email = e /\ ~users[u].isActive
\* No active User has the address, in any letter case.
NoActiveUserHas(e) ==
  \A u \in UserIds : ~(users[u].isActive /\ Lower(users[u].email) = Lower(e))

\* C35: a valid register body for the address of a deactivated User is
\* answered with the user-already-exists conflict and stores no request,
\* and no request is ever stored for the address of a User; login for an
\* address whose User is deactivated goes on as for an address without a
\* User and signs no token, and forgot-password answers as for an unknown
\* address and changes no User.
C35_DeactivatedEmailStaysOut ==
  [][\A p \in Procs :
       /\ (/\ procs[p].pc = "idle"
           /\ procs'[p].op = "register"
           /\ ValidSubmission(procs'[p])
           /\ InactiveUserHas(procs'[p].email))
          => /\ procs'[p].pc = "done"
             /\ procs'[p].resp = Resp(400, "User with this email already exists")
             /\ requests' = requests
       /\ Len(requests') > Len(requests)
          => \A u \in UserIds : users[u].email # requests'[Len(requests')].email
       /\ (/\ procs[p].pc = "idle"
           /\ procs'[p].op = "login"
           /\ procs'[p].email # "" /\ procs'[p].password # ""
           /\ NoActiveUserHas(procs'[p].email))
          => /\ procs'[p].pc = "login_findPending"
             /\ tokens' = tokens
       /\ (Answers(p, "login") /\ NoActiveUserHas(procs'[p].email))
          => procs'[p].resp.status # 200 /\ procs'[p].resp.token = NoToken
       /\ (/\ procs[p].pc = "idle"
           /\ procs'[p].op = "forgot"
           /\ procs'[p].email # ""
           /\ NoActiveUserHas(procs'[p].email))
          => /\ procs'[p].pc = "done"
             /\ procs'[p].resp = Resp(404, "Sorry, no user exists with this email address")
             /\ users' = users]_vars

\* The employee was deactivated and then sent a valid registration for the
\* same address, which was refused.
C35_Witness ==
  \E p \in Procs :
    /\ Finished(p, "register")
    /\ procs[p].resp = Resp(400, "User with this email already exists")
    /\ InactiveUserHas(procs[p].email)
    /\ \A r \in ReqIds : requests[r].email = procs[p].email => requests[r].status = "approved"


(* ====================== the serverless connection flag ================= *)
\* C36: a request under /api reaches its route handler only with the flag
\* isConnected true; an attempt that fails is answered 500 without the
\* handler and leaves the flag false; and an attempt is started only while
\* no attempt has succeeded.
C36_HandlersBehindConnectionFlag ==
  [][\A p \in Procs :
       /\ (/\ procs'[p] # procs[p]
           /\ procs'[p].op \in ApiRoutes \cup {"health"}
           /\ \/ procs'[p].pc = "route"
              \/ procs'[p].op = "health" /\ procs'[p].pc = "done")
          => isConnected'
       /\ (procs[p].pc = "db_connect" /\ procs'[p].pc = "done")
          => /\ procs'[p].resp.status = 500
             /\ ~isConnected'
       /\ (procs[p].pc # "db_connect" /\ procs'[p].pc = "db_connect")
          => readyState = 0]_vars


(* ======================== the frontend token store ===================== *)
\* The token the tab holds: the one in memory, else the stored one.
HeldToken == IF authToken # Null THEN authToken ELSE sessionStorage

\* C37: a token in memory is the token in sessionStorage; setAuthToken(t)
\* makes t the held token, clearAuthToken and a 401 response leave none,
\* and nothing else changes it; getAuthToken returns the held token, and a
\* request carries it as its Authorization header, or no header when none
\* is held.
C37_TokenStoreAgrees ==
  [][/\ authToken' # Null => authToken' = sessionStorage'
     /\ \A t \in LoginTokens : setAuthToken(t) => HeldToken' = t
     /\ clearAuthToken => HeldToken' = Null
     /\ Respond(401) => HeldToken' = Null
     /\ (Respond(200) \/ Respond(500) \/ Reload) => HeldToken' = HeldToken
     /\ getAuthToken => returned' = HeldToken /\ HeldToken' = HeldToken
     /\ SendRequest => authorization' = HeldToken /\ HeldToken' = HeldToken]_vars

\* A token was returned earlier; since then the store was emptied and a
\* request left without a header.
C37_Witness ==
  /\ returned \in LoginTokens
  /\ authToken = Null
  /\ sessionStorage = Null
  /\ authorization = Null
  /\ pending = 1

====
